---------------------------- MODULE Spec2Model ----------------------------
(***************************************************************************)
(* Grid-based target distributions of the VES code: TargetDistribution     *)
(* (base engine), the WELL_TEMPERED and MATHEVAL_DIST variants and the     *)
(* LINEAR_COMBINATION composite, modelled as a state machine driven by the *)
(* host bias action (construct, set up grids, link, update).               *)
(*                                                                         *)
(* Doubles are modelled exactly as extended rationals <<n, d>>:            *)
(*   d > 0   the finite value n/d (in lowest terms)                        *)
(*   <<1,0>> +inf    <<-1,0>> -inf    <<0,0>> NaN                          *)
(* A double L held by a log grid is modelled as [negln |-> e], the number  *)
(* -ln(e), so that -std::log(v) of a rational v stays exact; e = 0 is      *)
(* L = +inf, e = +inf is L = -inf, e = NaN is L = NaN.                     *)
(***************************************************************************)
EXTENDS Integers, Sequences, FiniteSets, TLC

NULL == [null |-> TRUE]

\* ------------------------------------------------------------------------
\* Bounds of the model
\* ------------------------------------------------------------------------
MaxBins == 2
MaxDim == 1
MaxUpdates == 2

\* ------------------------------------------------------------------------
\* double arithmetic
\* ------------------------------------------------------------------------
Abs(n) == IF n < 0 THEN -n ELSE n
Sign(n) == IF n < 0 THEN -1 ELSE IF n > 0 THEN 1 ELSE 0

RECURSIVE GCD(_, _)
GCD(a, b) == IF b = 0 THEN a ELSE GCD(b, a % b)

Norm(n, d) ==
  IF d = 0 THEN <<Sign(n), 0>>
  ELSE LET g == GCD(Abs(n), Abs(d))
           s == IF d < 0 THEN -1 ELSE 1
       IN  <<(s * n) \div g, (s * d) \div g>>

R(n) == <<n, 1>>
Zero == <<0, 1>>
One == <<1, 1>>
Inf == <<1, 0>>
NaN == <<0, 0>>

IsNaN(a) == a = NaN
IsInf(a) == a[2] = 0 /\ a[1] # 0
IsFinite(a) == a[2] # 0

\* a*b; the factors are in lowest terms, so reducing crosswise first gives
\* the product in lowest terms
Mul(a, b) ==
  IF a[2] = 0 \/ b[2] = 0 \/ a[1] = 0 \/ b[1] = 0 THEN Norm(a[1] * b[1], a[2] * b[2])
  ELSE LET g1 == GCD(Abs(a[1]), b[2])
           g2 == GCD(Abs(b[1]), a[2])
       IN  <<(a[1] \div g1) * (b[1] \div g2), (a[2] \div g2) * (b[2] \div g1)>>

Add(a, b) ==
  IF IsNaN(a) \/ IsNaN(b) THEN NaN
  ELSE IF IsInf(a) /\ IsInf(b) THEN (IF a = b THEN a ELSE NaN)
  ELSE IF IsInf(a) THEN a
  ELSE IF IsInf(b) THEN b
  ELSE LET g == GCD(a[2], b[2])
       IN  Norm(a[1] * (b[2] \div g) + b[1] * (a[2] \div g), (a[2] \div g) * b[2])

\* 1.0/a
Inv(a) ==
  IF IsNaN(a) THEN NaN
  ELSE IF IsInf(a) THEN Zero
  ELSE IF a[1] = 0 THEN Inf
  ELSE Norm(a[2], a[1])

Div(a, b) == Mul(a, Inv(b))

\* a < b on doubles: every comparison with NaN is false
Less(a, b) ==
  IF IsNaN(a) \/ IsNaN(b) \/ a = b THEN FALSE
  ELSE IF a = <<-1, 0>> \/ b = Inf THEN TRUE
  ELSE IF a = Inf \/ b = <<-1, 0>> THEN FALSE
  ELSE LET g == GCD(a[2], b[2])
       IN  a[1] * (b[2] \div g) < b[1] * (a[2] \div g)

RECURSIVE Pow(_, _)
Pow(a, n) == IF n = 0 THEN One ELSE Mul(a, Pow(a, n - 1))

\* -std::log(v)
NegLog(v) == [negln |-> IF IsNaN(v) \/ Less(v, Zero) THEN NaN ELSE v]
\* std::exp(-L)
ExpNeg(L) == L.negln
\* L < M on log-domain doubles
LLess(L, M) == Less(M.negln, L.negln)
\* L - M on log-domain doubles
LSub(L, M) == [negln |-> Mul(L.negln, Inv(M.negln))]
LZero == [negln |-> One]

Neg(a) == <<-a[1], a[2]>>
Sub(a, b) == Add(a, Neg(b))

RECURSIVE SeqSum(_)
SeqSum(s) == IF s = <<>> THEN Zero ELSE Add(SeqSum(SubSeq(s, 1, Len(s) - 1)), s[Len(s)])

\* ------------------------------------------------------------------------
\* Grid and GridIntegrationWeights (external collaborators)
\* A grid is [min, max, nbins, v]: non-periodic, nbins[i]+1 points along
\* dimension i, spacing 1, flat index l in 1..Len(v), first dimension
\* running fastest.
\* ------------------------------------------------------------------------
RECURSIVE GridSize(_)
GridSize(nbins) ==
  IF nbins = <<>> THEN 1 ELSE (nbins[1] + 1) * GridSize(Tail(nbins))

RECURSIVE Indices(_, _)
Indices(l0, nbins) ==
  IF nbins = <<>> THEN <<>>
  ELSE <<l0 % (nbins[1] + 1)>> \o Indices(l0 \div (nbins[1] + 1), Tail(nbins))

\* Grid::getPoint(l)
getPoint(g, l) ==
  LET ix == Indices(l - 1, g.nbins)
  IN  [i \in 1..Len(g.nbins) |-> g.min[i] + ix[i]]

\* Grid::Grid(...): all values 0.0
NewGrid(min, max, nbins) ==
  [min |-> min, max |-> max, nbins |-> nbins,
   v |-> [l \in 1..GridSize(nbins) |-> Zero]]
NewLogGrid(min, max, nbins) ==
  [min |-> min, max |-> max, nbins |-> nbins,
   v |-> [l \in 1..GridSize(nbins) |-> LZero]]

getSize(g) == Len(g.v)

\* GridIntegrationWeights::getIntegrationWeights: trapezoidal rule
RECURSIVE PointWeight(_, _)
PointWeight(ix, nbins) ==
  IF nbins = <<>> THEN One
  ELSE Mul(IF ix[1] = 0 \/ ix[1] = nbins[1] THEN <<1, 2>> ELSE One,
           PointWeight(Tail(ix), Tail(nbins)))

getIntegrationWeights(g) ==
  [l \in 1..getSize(g) |-> PointWeight(Indices(l - 1, g.nbins), g.nbins)]

\* Grid::scaleAllValuesAndDerivatives
scaleAllValuesAndDerivatives(g, s) ==
  [g EXCEPT !.v = [l \in 1..Len(g.v) |-> Mul(g.v[l], s)]]

\* running minimum as Grid::setMinToZero and Grid::getMinValue compute it
RECURSIVE MinFrom(_, _, _)
MinFrom(v, i, m) ==
  IF i > Len(v) THEN m
  ELSE MinFrom(v, i + 1, IF Less(v[i], m) THEN v[i] ELSE m)

RECURSIVE LMinFrom(_, _, _)
LMinFrom(v, i, m) ==
  IF i > Len(v) THEN m
  ELSE LMinFrom(v, i + 1, IF LLess(v[i], m) THEN v[i] ELSE m)

\* Grid::getMinValue
getMinValue(g) == MinFrom(g.v, 2, g.v[1])

\* Grid::setMinToZero on a value grid and on a log grid
setMinToZero(g) ==
  LET m == MinFrom(g.v, 2, g.v[1])
  IN  [g EXCEPT !.v = [l \in 1..Len(g.v) |-> Sub(g.v[l], m)]]
LsetMinToZero(g) ==
  LET m == LMinFrom(g.v, 2, g.v[1])
  IN  [g EXCEPT !.v = [l \in 1..Len(g.v) |-> LSub(g.v[l], m)]]

\* TargetDistribution::integrateGrid
integrateGrid(g) ==
  LET w == getIntegrationWeights(g)
  IN  SeqSum([l \in 1..getSize(g) |-> Mul(w[l], g.v[l])])

\* TargetDistribution::normalizeGrid: the grid scaled, and the integral
normalizeGrid(g) == scaleAllValuesAndDerivatives(g, Inv(integrateGrid(g)))

\* ------------------------------------------------------------------------
\* Keywords and construction
\* ------------------------------------------------------------------------
\* keys.use(...) of each registered variant: the keywords for which
\* keywords.exists(...) is true.  STATIC stands for the closed-form leaf
\* variants (getValue given by a formula), which use all four.
KeywordsStatic == {"BIAS_CUTOFF", "WELLTEMPERED_FACTOR", "SHIFT_TO_ZERO", "NORMALIZE"}
KeywordsWellTempered == {"BIAS_CUTOFF"}
KeywordsMatheval == {"BIAS_CUTOFF", "WELLTEMPERED_FACTOR", "SHIFT_TO_ZERO"}
KeywordsLinearCombination == {"BIAS_CUTOFF", "WELLTEMPERED_FACTOR", "NORMALIZE"}

KeywordsOf(name) ==
  CASE name = "STATIC" -> KeywordsStatic
    [] name = "WELL_TEMPERED" -> KeywordsWellTempered
    [] name = "MATHEVAL_DIST" -> KeywordsMatheval
    [] name = "LINEAR_COMBINATION" -> KeywordsLinearCombination

Ok(d) == d.fatal = "none"
\* plumed_merror / a failed plumed_massert
Fail(d, msg) == [d EXCEPT !.fatal = msg]
\* a set-up that marks the bias grid, not the bias-without-cutoff grid
setupBiasCutoffNeedingBiasGrid(d) ==
  IF ~Ok(d) THEN d
  ELSE IF "BIAS_CUTOFF" \notin KeywordsOf(d.name_)
  THEN Fail(d, "this target distribution does not support a bias cutoff")
  ELSE [d EXCEPT !.bias_cutoff_active_ = TRUE,
                 !.needs_bias_grid_ = TRUE,
                 !.type_ = "dynamic_targetdist",
                 !.check_normalization_ = FALSE,
                 !.force_normalization_ = FALSE]


\* TargetDistribution::setupBiasCutoff
setupBiasCutoff(d) ==
  IF ~Ok(d) THEN d
  ELSE IF "BIAS_CUTOFF" \notin KeywordsOf(d.name_)
  THEN Fail(d, "this target distribution does not support a bias cutoff")
  ELSE [d EXCEPT !.bias_cutoff_active_ = TRUE,
                 !.needs_bias_withoutcutoff_grid_ = TRUE,
                 !.type_ = "dynamic_targetdist",
                 !.check_normalization_ = FALSE,
                 !.force_normalization_ = FALSE]

setForcedNormalization(d) ==
  [d EXCEPT !.force_normalization_ = TRUE, !.check_normalization_ = FALSE]

\* The member initialisers of TargetDistribution::TargetDistribution.  An
\* option record o carries the keywords present (o.words) and their values.
InitialMembers(o) ==
  [name_ |-> o.name,
   input |-> o.words,
   type_ |-> "static_targetdist",
   force_normalization_ |-> FALSE,
   check_normalization_ |-> TRUE,
   check_nonnegative_ |-> TRUE,
   shift_targetdist_to_zero_ |-> FALSE,
   dimension_ |-> 0,
   targetdist_grid_pntr_ |-> NULL,
   log_targetdist_grid_pntr_ |-> NULL,
   reweight_grid_active_ |-> FALSE,
   reweight_grid_pntr_ |-> NULL,
   log_reweight_grid_pntr_ |-> NULL,
   targetdist_modifer_pntrs_ |-> <<>>,
   action_pntr_ |-> NULL,
   vesbias_pntr_ |-> NULL,
   needs_bias_grid_ |-> FALSE,
   needs_bias_withoutcutoff_grid_ |-> FALSE,
   needs_fes_grid_ |-> FALSE,
   bias_grid_pntr_ |-> NULL,
   bias_withoutcutoff_grid_pntr_ |-> NULL,
   fes_grid_pntr_ |-> NULL,
   bias_rwgrid_pntr_ |-> NULL,
   bias_withoutcutoff_rwgrid_pntr_ |-> NULL,
   fes_rwgrid_pntr_ |-> NULL,
   static_grid_calculated |-> FALSE,
   bias_cutoff_active_ |-> FALSE,
   bias_cutoff_value_ |-> Zero,
   fatal |-> "none",
   steps |-> <<>>,
   warnings |-> {}]

\* parse("BIAS_CUTOFF",bias_cutoff_value_,true) and the two tests on it
CtorBiasCutoff(d, o) ==
  IF ~Ok(d) THEN d
  ELSE LET d1 == IF "BIAS_CUTOFF" \in d.input
                 THEN [d EXCEPT !.bias_cutoff_value_ = o.BIAS_CUTOFF,
                                !.input = @ \ {"BIAS_CUTOFF"}]
                 ELSE d
       IN  IF Less(d1.bias_cutoff_value_, Zero)
           THEN Fail(d1, "negative value in BIAS_CUTOFF does not make sense")
           ELSE IF Less(Zero, d1.bias_cutoff_value_) THEN setupBiasCutoff(d1)
           ELSE d1

\* WellTemperedModifer(welltempered_factor): value -> pow(value, 1/factor),
\* kept as the exponent 1/factor
WellTemperedModifer(factor) == [invbiasf |-> Inv(factor)]

CtorWellTemperedFactor(d, o) ==
  IF ~Ok(d) \/ "WELLTEMPERED_FACTOR" \notin KeywordsOf(d.name_) THEN d
  ELSE LET present == "WELLTEMPERED_FACTOR" \in d.input
           welltempered_factor == IF present THEN o.WELLTEMPERED_FACTOR ELSE Zero
           d1 == [d EXCEPT !.input = @ \ {"WELLTEMPERED_FACTOR"}]
       IN  IF Less(Zero, welltempered_factor)
           THEN IF d1.bias_cutoff_active_
                THEN Fail(d1, "using WELLTEMPERED_FACTOR with bias cutoff is not allowed")
                ELSE [d1 EXCEPT !.targetdist_modifer_pntrs_ =
                                   Append(@, WellTemperedModifer(welltempered_factor))]
           ELSE IF Less(welltempered_factor, Zero)
           THEN Fail(d1, "negative value in WELLTEMPERED_FACTOR does not make sense")
           ELSE d1

\* SHIFT_TO_ZERO parsed without the test of bias_cutoff_active_
CtorShiftToZeroUntested(d) ==
  IF ~Ok(d) \/ "SHIFT_TO_ZERO" \notin KeywordsOf(d.name_) THEN d
  ELSE [d EXCEPT !.shift_targetdist_to_zero_ = "SHIFT_TO_ZERO" \in d.input,
                 !.check_nonnegative_ = "SHIFT_TO_ZERO" \notin d.input,
                 !.input = @ \ {"SHIFT_TO_ZERO"}]
CtorShiftToZero(d) ==
  IF ~Ok(d) \/ "SHIFT_TO_ZERO" \notin KeywordsOf(d.name_) THEN d
  ELSE LET d1 == [d EXCEPT !.shift_targetdist_to_zero_ = "SHIFT_TO_ZERO" \in d.input,
                           !.input = @ \ {"SHIFT_TO_ZERO"}]
       IN  IF d1.shift_targetdist_to_zero_
           THEN IF d1.bias_cutoff_active_
                THEN Fail(d1, "using SHIFT_TO_ZERO with bias cutoff is not allowed")
                ELSE [d1 EXCEPT !.check_nonnegative_ = FALSE]
           ELSE d1

\* NORMALIZE parsed without the tests of the other flags
CtorNormalizeUntested(d) ==
  IF ~Ok(d) \/ "NORMALIZE" \notin KeywordsOf(d.name_) THEN d
  ELSE IF "NORMALIZE" \in d.input
  THEN setForcedNormalization([d EXCEPT !.input = @ \ {"NORMALIZE"}])
  ELSE d
CtorNormalize(d) ==
  IF ~Ok(d) \/ "NORMALIZE" \notin KeywordsOf(d.name_) THEN d
  ELSE LET force_normalization == "NORMALIZE" \in d.input
           d1 == [d EXCEPT !.input = @ \ {"NORMALIZE"}]
       IN  IF force_normalization
           THEN IF d1.shift_targetdist_to_zero_
                THEN Fail(d1, "using NORMALIZE with SHIFT_TO_ZERO is not needed")
                ELSE IF d1.bias_cutoff_active_
                THEN Fail(d1, "using NORMALIZE with bias cutoff is not allowed")
                ELSE setForcedNormalization(d1)
           ELSE d1

\* TargetDistribution::TargetDistribution
TargetDistribution(o) ==
  CtorNormalize(CtorShiftToZero(CtorWellTemperedFactor(
    CtorBiasCutoff(InitialMembers(o), o), o)))

\* TargetDistribution::checkRead
checkRead(d) ==
  IF ~Ok(d) THEN d
  ELSE IF d.input # {}
  THEN Fail(d, "cannot understand the following words from the target distribution input")
  ELSE d

setDynamic(d) == [d EXCEPT !.type_ = "dynamic_targetdist"]
setFesGridNeeded(d) == [d EXCEPT !.needs_fes_grid_ = TRUE]
setBiasGridNeeded(d) == [d EXCEPT !.needs_bias_grid_ = TRUE]
isDynamic(d) == d.type_ = "dynamic_targetdist"
isStatic(d) == d.type_ = "static_targetdist"

\* TargetDistribution::parse of a compulsory keyword
parseCompulsory(d, key) ==
  IF ~Ok(d) THEN d
  ELSE IF key \notin d.input
  THEN Fail(d, "target distribution requires keyword")
  ELSE [d EXCEPT !.input = @ \ {key}]

\* A closed-form leaf variant: its parameters select the formula (o.PROFILE)
TD_Static(o) ==
  LET d0 == TargetDistribution(o) @@ [profile |-> o.PROFILE]
  IN  checkRead(parseCompulsory(d0, "PROFILE"))

\* a constructor that refuses only a bias factor below 1
TD_WellTemperedAcceptingOne(o) ==
  LET Checked(d2) ==
        IF ~Ok(d2) THEN d2
        ELSE IF Less(d2.bias_factor_, One)
        THEN Fail(d2, "the value of the bias factor doesn't make sense, it should be larger than 1.0")
        ELSE checkRead(setFesGridNeeded(setDynamic(d2)))
      Parsed(d1) ==
        Checked(IF Ok(d1) THEN [d1 EXCEPT !.bias_factor_ = o.BIASFACTOR] ELSE d1)
  IN  Parsed(parseCompulsory(TargetDistribution(o) @@ [bias_factor_ |-> Zero], "BIASFACTOR"))

\* TD_WellTempered::TD_WellTempered
TD_WellTempered(o) ==
  LET Checked(d2) ==
        IF ~Ok(d2) THEN d2
        ELSE IF Less(d2.bias_factor_, One) \/ d2.bias_factor_ = One
        THEN Fail(d2, "the value of the bias factor doesn't make sense, it should be larger than 1.0")
        ELSE checkRead(setFesGridNeeded(setDynamic(d2)))
      Parsed(d1) ==
        Checked(IF Ok(d1) THEN [d1 EXCEPT !.bias_factor_ = o.BIASFACTOR] ELSE d1)
  IN  Parsed(parseCompulsory(TargetDistribution(o) @@ [bias_factor_ |-> Zero], "BIASFACTOR"))

\* evaluator_get_variables of the expressions the model draws FUNCTION from
MathevalVariables(func) ==
  CASE func = "s1" -> <<"s1">>
    [] func = "s1-1" -> <<"s1">>
    [] func = "2" -> <<>>
    [] func = "s2" -> <<"s2">>
    [] func = "exp(-beta*FE)" -> <<"FE", "beta">>
    [] func = "s1*exp(-FE/kBT)" -> <<"s1", "FE", "kBT">>
    [] func = "x" -> <<"x">>

\* Tools::convert of the text after the prefix "s": the number, 0 if none
CvNumber(var) ==
  CASE var = "s1" -> 1 [] var = "s2" -> 2 [] var = "s3" -> 3 [] OTHER -> 0

\* the loop over var_names in TD_Matheval::TD_Matheval
RECURSIVE MathevalScanVariables(_, _)
MathevalScanVariables(d, vars) ==
  IF ~Ok(d) \/ vars = <<>> THEN d
  ELSE LET curr_var == Head(vars)
           d1 == IF CvNumber(curr_var) > 0
                 THEN [d EXCEPT !.cv_var_idx_ = Append(@, CvNumber(curr_var) - 1)]
                 ELSE IF curr_var = "FE"
                 THEN setFesGridNeeded(setDynamic([d EXCEPT !.use_fes_ = TRUE]))
                 ELSE IF curr_var = "kBT" THEN [d EXCEPT !.use_kbt_ = TRUE]
                 ELSE IF curr_var = "beta" THEN [d EXCEPT !.use_beta_ = TRUE]
                 ELSE Fail(d, "problem with parsing matheval formula, cannot recognise the variable")
       IN  MathevalScanVariables(d1, Tail(vars))

\* std::sort of a vector of at most MaxDim+1 distinct indices
RECURSIVE SortIdx(_)
SortIdx(q) ==
  IF q = <<>> THEN <<>>
  ELSE LET m == CHOOSE i \in 1..Len(q) : \A j \in 1..Len(q) : q[i] <= q[j]
       IN  <<q[m]>> \o SortIdx([k \in 1..(Len(q) - 1) |-> IF k < m THEN q[k] ELSE q[k + 1]])

\* TD_Matheval::TD_Matheval
TD_Matheval(o) ==
  LET Sorted(d3) == IF Ok(d3) THEN [d3 EXCEPT !.cv_var_idx_ = SortIdx(@)] ELSE d3
      Scanned(d2) ==
        Sorted(MathevalScanVariables(d2, IF Ok(d2) THEN MathevalVariables(d2.func) ELSE <<>>))
      Parsed(d1) == Scanned(IF Ok(d1) THEN [d1 EXCEPT !.func = o.FUNCTION] ELSE d1)
  IN  Parsed(checkRead(parseCompulsory(
        TargetDistribution(o) @@
          [func |-> "", cv_var_idx_ |-> <<>>,
           use_fes_ |-> FALSE, use_kbt_ |-> FALSE, use_beta_ |-> FALSE],
        "FUNCTION")))

RECURSIVE create(_)

\* the loop with the line that makes the combination dynamic left out
RECURSIVE LinearCombinationChildrenKeepingType(_, _, _)
LinearCombinationChildrenKeepingType(d, o, i) ==
  IF ~Ok(d) \/ i > Len(o.DISTRIBUTION) THEN d
  ELSE LET dist_pntr_tmp == create(o.DISTRIBUTION[i])
       IN  IF ~Ok(dist_pntr_tmp) THEN Fail(d, dist_pntr_tmp.fatal)
           ELSE LET d2 == IF dist_pntr_tmp.needs_fes_grid_ THEN setFesGridNeeded(d) ELSE d
                    d3 == IF dist_pntr_tmp.needs_bias_grid_ THEN setBiasGridNeeded(d2) ELSE d2
                IN  LinearCombinationChildrenKeepingType(
                      [d3 EXCEPT !.distribution_pntrs_ = Append(@, dist_pntr_tmp)], o, i + 1)

\* the loop with the two lines that pass on the needed grids left out
RECURSIVE LinearCombinationChildrenKeepingNeeds(_, _, _)
LinearCombinationChildrenKeepingNeeds(d, o, i) ==
  IF ~Ok(d) \/ i > Len(o.DISTRIBUTION) THEN d
  ELSE LET dist_pntr_tmp == create(o.DISTRIBUTION[i])
       IN  IF ~Ok(dist_pntr_tmp) THEN Fail(d, dist_pntr_tmp.fatal)
           ELSE LET d1 == IF isDynamic(dist_pntr_tmp) THEN setDynamic(d) ELSE d
                IN  LinearCombinationChildrenKeepingNeeds(
                      [d1 EXCEPT !.distribution_pntrs_ = Append(@, dist_pntr_tmp)], o, i + 1)

\* the loop over the numbered DISTRIBUTION keywords
RECURSIVE LinearCombinationChildren(_, _, _)
LinearCombinationChildren(d, o, i) ==
  IF ~Ok(d) \/ i > Len(o.DISTRIBUTION) THEN d
  ELSE LET dist_pntr_tmp == create(o.DISTRIBUTION[i])
       IN  IF ~Ok(dist_pntr_tmp) THEN Fail(d, dist_pntr_tmp.fatal)
           ELSE LET d1 == IF isDynamic(dist_pntr_tmp) THEN setDynamic(d) ELSE d
                    d2 == IF dist_pntr_tmp.needs_fes_grid_ THEN setFesGridNeeded(d1) ELSE d1
                    d3 == IF dist_pntr_tmp.needs_bias_grid_ THEN setBiasGridNeeded(d2) ELSE d2
                IN  LinearCombinationChildren(
                      [d3 EXCEPT !.distribution_pntrs_ = Append(@, dist_pntr_tmp)], o, i + 1)

\* a constructor that counts neither the children nor the weights
TD_LinearCombinationUncounted(o) ==
  LET Normalized(d3) ==
        IF ~Ok(d3) THEN d3
        ELSE checkRead([d3 EXCEPT !.weights_ =
               [i \in 1..Len(d3.weights_) |-> Div(d3.weights_[i], SeqSum(d3.weights_))]])
      Counted(d2) ==
        Normalized(
          IF ~Ok(d2) THEN d2
          ELSE IF "WEIGHTS" \in d2.input
          THEN [d2 EXCEPT !.weights_ = o.WEIGHTS, !.input = @ \ {"WEIGHTS"}]
          ELSE [d2 EXCEPT !.weights_ = [i \in 1..d2.ndist_ |-> One]])
      Created(d1) ==
        Counted(
          IF Ok(d1)
          THEN [d1 EXCEPT !.ndist_ = Len(d1.distribution_pntrs_),
                          !.grid_pntrs_ = [i \in 1..Len(d1.distribution_pntrs_) |-> NULL],
                          !.rw_grid_pntrs_ = [i \in 1..Len(d1.distribution_pntrs_) |-> NULL]]
          ELSE d1)
      Base(d0) ==
        Created(LinearCombinationChildren(
          IF Ok(d0) THEN [d0 EXCEPT !.input = @ \ {"DISTRIBUTION"}] ELSE d0, o, 1))
  IN  Base(TargetDistribution(o) @@
             [distribution_pntrs_ |-> <<>>, grid_pntrs_ |-> <<>>,
              rw_grid_pntrs_ |-> <<>>, weights_ |-> <<>>, ndist_ |-> 0])

\* TD_LinearCombination::TD_LinearCombination
TD_LinearCombination(o) ==
  LET Normalized(d3) ==
        IF ~Ok(d3) THEN d3
        ELSE IF Len(d3.distribution_pntrs_) # Len(d3.weights_)
        THEN Fail(d3, "there has to be as many weights given in WEIGHTS as numbered DISTRIBUTION keywords")
        ELSE checkRead([d3 EXCEPT !.weights_ =
               [i \in 1..Len(d3.weights_) |-> Div(d3.weights_[i], SeqSum(d3.weights_))]])
      Counted(d2) ==
        Normalized(
          IF ~Ok(d2) THEN d2
          ELSE IF d2.ndist_ = 0 THEN Fail(d2, "no distributions are given")
          ELSE IF d2.ndist_ = 1 THEN Fail(d2, "giving only one distribution does not make sense")
          ELSE IF "WEIGHTS" \in d2.input
          THEN [d2 EXCEPT !.weights_ = o.WEIGHTS, !.input = @ \ {"WEIGHTS"}]
          ELSE [d2 EXCEPT !.weights_ = [i \in 1..d2.ndist_ |-> One]])
      Created(d1) ==
        Counted(
          IF Ok(d1)
          THEN [d1 EXCEPT !.ndist_ = Len(d1.distribution_pntrs_),
                          !.grid_pntrs_ = [i \in 1..Len(d1.distribution_pntrs_) |-> NULL],
                          !.rw_grid_pntrs_ = [i \in 1..Len(d1.distribution_pntrs_) |-> NULL]]
          ELSE d1)
      Base(d0) ==
        Created(LinearCombinationChildren(
          IF Ok(d0) THEN [d0 EXCEPT !.input = @ \ {"DISTRIBUTION"}] ELSE d0, o, 1))
  IN  Base(TargetDistribution(o) @@
             [distribution_pntrs_ |-> <<>>, grid_pntrs_ |-> <<>>,
              rw_grid_pntrs_ |-> <<>>, weights_ |-> <<>>, ndist_ |-> 0])

\* targetDistributionRegister().create(words)
create(o) ==
  CASE o.name = "STATIC" -> TD_Static(o)
    [] o.name = "WELL_TEMPERED" -> TD_WellTempered(o)
    [] o.name = "MATHEVAL_DIST" -> TD_Matheval(o)
    [] o.name = "LINEAR_COMBINATION" -> TD_LinearCombination(o)

\* ------------------------------------------------------------------------
\* Dimension, grid set-up, links
\* ------------------------------------------------------------------------
\* TargetDistribution::setDimension
setDimension(d, dimension) ==
  IF ~Ok(d) THEN d
  ELSE IF d.dimension_ # 0
  THEN Fail(d, "setDimension: the dimension of the target distribution has already been set")
  ELSE [d EXCEPT !.dimension_ = dimension]

getDimension(d) == d.dimension_

\* TD_Matheval::setupAdditionalGrids
TD_Matheval_setupAdditionalGrids(d) ==
  IF ~Ok(d) THEN d
  ELSE IF Len(d.cv_var_idx_) > 0 /\ d.cv_var_idx_[Len(d.cv_var_idx_)] > getDimension(d)
  THEN Fail(d, "mismatch between CVs given in FUNC and the dimension of the target distribution")
  ELSE d

RECURSIVE setupGrids(_, _)

\* only the first child is set up
TD_LinearCombination_setupFirstChildOnly(d, a, i) ==
  IF ~Ok(d) \/ i > d.ndist_ THEN d
  ELSE LET c  == setupGrids(d.distribution_pntrs_[i], a)
           d1 == [d EXCEPT !.distribution_pntrs_[i] = c]
       IN  IF ~Ok(c) THEN Fail(d1, c.fatal)
           ELSE IF getDimension(c) # getDimension(d1)
           THEN Fail(d1, "all target distribution must have the same dimension")
           ELSE [d1 EXCEPT !.grid_pntrs_[i] = [child |-> i]]

\* TD_LinearCombination::setupAdditionalGrids, children i..ndist_
RECURSIVE TD_LinearCombination_setupAdditionalGrids(_, _, _)
TD_LinearCombination_setupAdditionalGrids(d, a, i) ==
  IF ~Ok(d) \/ i > d.ndist_ THEN d
  ELSE LET c  == setupGrids(d.distribution_pntrs_[i], a)
           d1 == [d EXCEPT !.distribution_pntrs_[i] = c]
       IN  IF ~Ok(c) THEN Fail(d1, c.fatal)
           ELSE IF getDimension(c) # getDimension(d1)
           THEN Fail(d1, "all target distribution must have the same dimension")
           ELSE TD_LinearCombination_setupAdditionalGrids(
                  [d1 EXCEPT !.grid_pntrs_[i] = [child |-> i]], a, i + 1)

\* the virtual setupAdditionalGrids
setupAdditionalGrids(d, a) ==
  CASE d.name_ = "MATHEVAL_DIST" -> TD_Matheval_setupAdditionalGrids(d)
    [] d.name_ = "LINEAR_COMBINATION" -> TD_LinearCombination_setupAdditionalGrids(d, a, 1)
    [] OTHER -> d

\* the two grids allocated before the sizes are tested
setupGridsAllocatingFirst(d, a) ==
  IF ~Ok(d) THEN d
  ELSE LET d1 == IF getDimension(d) = 0 THEN setDimension(d, a.arguments) ELSE d
           d2 == [d1 EXCEPT !.targetdist_grid_pntr_ = NewGrid(a.min, a.max, a.nbins),
                            !.log_targetdist_grid_pntr_ = NewLogGrid(a.min, a.max, a.nbins)]
           dimension == getDimension(d1)
       IN  IF a.arguments # dimension \/ Len(a.min) # dimension
              \/ Len(a.max) # dimension \/ Len(a.nbins) # dimension
           THEN Fail(d2, "TargetDistribution::setupGrids: mismatch between number of values given for grid parameters")
           ELSE setupAdditionalGrids(d2, a)

\* TargetDistribution::setupGrids; a = [arguments, min, max, nbins], with
\* a.arguments the number of Value* given
setupGrids(d, a) ==
  IF ~Ok(d) THEN d
  ELSE LET d1 == IF getDimension(d) = 0 THEN setDimension(d, a.arguments) ELSE d
           dimension == getDimension(d1)
       IN  IF a.arguments # dimension \/ Len(a.min) # dimension
              \/ Len(a.max) # dimension \/ Len(a.nbins) # dimension
           THEN Fail(d1, "TargetDistribution::setupGrids: mismatch between number of values given for grid parameters")
           ELSE setupAdditionalGrids(
                  [d1 EXCEPT !.targetdist_grid_pntr_ = NewGrid(a.min, a.max, a.nbins),
                             !.log_targetdist_grid_pntr_ = NewLogGrid(a.min, a.max, a.nbins)], a)

setReweightGridActive(d) == [d EXCEPT !.reweight_grid_active_ = TRUE]
\* the flag never read as set
ReweightGridNeverActive(d) == FALSE
isReweightGridActive(d) == d.reweight_grid_active_

RECURSIVE setupReweightGrids(_, _)

\* TD_LinearCombination::setupAdditionalReweightGrids, children i..ndist_
RECURSIVE TD_LinearCombination_setupAdditionalReweightGrids(_, _, _)
TD_LinearCombination_setupAdditionalReweightGrids(d, a, i) ==
  IF ~Ok(d) \/ i > d.ndist_ THEN d
  ELSE LET c  == setupReweightGrids(d.distribution_pntrs_[i], a)
           d1 == [d EXCEPT !.distribution_pntrs_[i] = c]
       IN  IF ~Ok(c) THEN Fail(d1, c.fatal)
           ELSE IF getDimension(c) # getDimension(d1)
           THEN Fail(d1, "all target distribution must have the same dimension")
           ELSE TD_LinearCombination_setupAdditionalReweightGrids(
                  [d1 EXCEPT !.rw_grid_pntrs_[i] = [child |-> i]], a, i + 1)

\* TargetDistribution::setupReweightGrids
setupReweightGrids(d, a) ==
  IF ~Ok(d) THEN d
  ELSE LET dimension == getDimension(d)
       IN  IF a.arguments # dimension \/ Len(a.min) # dimension
              \/ Len(a.max) # dimension \/ Len(a.nbins) # dimension
           THEN Fail(d, "TargetDistribution::setupReweightGrids: mismatch between number of values given for grid parameters")
           ELSE LET d1 == setReweightGridActive(
                            [d EXCEPT !.reweight_grid_pntr_ = NewGrid(a.min, a.max, a.nbins),
                                      !.log_reweight_grid_pntr_ = NewLogGrid(a.min, a.max, a.nbins)])
                IN  IF d1.name_ = "LINEAR_COMBINATION"
                    THEN TD_LinearCombination_setupAdditionalReweightGrids(d1, a, 1)
                    ELSE d1

\* The link* methods.  kind names the method, p is the pointer passed.
LinkKinds ==
  {"VesBias", "Action", "BiasGrid", "BiasWithoutCutoffGrid", "FesGrid",
   "BiasRWGrid", "BiasWithoutCutoffRWGrid", "FesRWGrid"}

\* TargetDistribution::linkVesBias ... linkFesRWGrid
TargetDistribution_link(d, kind, p) ==
  CASE kind = "VesBias" -> [d EXCEPT !.vesbias_pntr_ = p, !.action_pntr_ = p]
    [] kind = "Action" -> [d EXCEPT !.action_pntr_ = p]
    [] kind = "BiasGrid" -> [d EXCEPT !.bias_grid_pntr_ = p]
    [] kind = "BiasWithoutCutoffGrid" -> [d EXCEPT !.bias_withoutcutoff_grid_pntr_ = p]
    [] kind = "FesGrid" -> [d EXCEPT !.fes_grid_pntr_ = p]
    [] kind = "BiasRWGrid" -> [d EXCEPT !.bias_rwgrid_pntr_ = p]
    [] kind = "BiasWithoutCutoffRWGrid" -> [d EXCEPT !.bias_withoutcutoff_rwgrid_pntr_ = p]
    [] kind = "FesRWGrid" -> [d EXCEPT !.fes_rwgrid_pntr_ = p]

\* the pointer kept by the parent only
linkParentOnly(d, kind, p) == TargetDistribution_link(d, kind, p)

\* the virtual link*: TD_LinearCombination::link* pass the pointer on to
\* every child
RECURSIVE link(_, _, _)
link(d, kind, p) ==
  LET d1 == TargetDistribution_link(d, kind, p)
  IN  IF d.name_ = "LINEAR_COMBINATION"
      THEN [d1 EXCEPT !.distribution_pntrs_ =
              [i \in 1..Len(d.distribution_pntrs_) |-> link(d.distribution_pntrs_[i], kind, p)]]
      ELSE d1

\* ------------------------------------------------------------------------
\* The host (VesBias and the grids it owns), read through the links
\* ------------------------------------------------------------------------
\* A linked pointer names the host object it points to.
Pntr(obj) == [obj |-> obj]

\* exp(-beta*F) of the host's free-energy estimate at a point, for the
\* estimates the model draws from; the FES grid holds F itself, the double
\* beta*F being -ln of this number
FesBoltzmann(fes, point) ==
  CASE fes = "flat" -> R(1)
    [] fes = "well" -> IF Len(point) > 0 /\ point[1] = 0 THEN R(4) ELSE R(1)

\* the host's bias without cutoff at a point, in units of the cutoff
BiasWithoutCutoff(bias, point) ==
  CASE bias = "zero" -> 0
    [] bias = "slope" -> IF Len(point) > 0 /\ point[1] = 0 THEN 0 ELSE 1

\* VesBias::getBiasCutoffSwitchingFunction: the switching factor and the
\* derivative factor at a bias value; 1 at zero bias, decreasing
SwitchingFunction(bias) ==
  IF bias = 0 THEN [swf |-> One, deriv_factor_swf |-> One]
  ELSE [swf |-> <<1, 2>>, deriv_factor_swf |-> <<3, 4>>]

\* ------------------------------------------------------------------------
\* update() and its steps.  Each step that acts on a grid pair appends
\* [op, grid] to d.steps; a dereferenced null pointer ends in "SIGSEGV".
\* ------------------------------------------------------------------------
Crash(d) == Fail(d, "SIGSEGV")
Step(d, op, grid) == [d EXCEPT !.steps = Append(@, [op |-> op, grid |-> grid])]
\* a step that divides the grid by the integral norm
StepNorm(d, op, grid, norm) ==
  [d EXCEPT !.steps = Append(@, [op |-> op, grid |-> grid, norm |-> norm])]
IsNull(p) == p = NULL

\* the formulas of the closed-form variants at one coordinate
ProfileValue(profile, x) ==
  CASE profile = "flat" -> R(1)
    [] profile = "ramp" -> R(x + 1)
    [] profile = "dip" -> IF x = 1 THEN R(-1) ELSE R(3)
    [] profile = "step" -> IF x = 0 THEN R(2) ELSE R(1)

RECURSIVE ProfileProduct(_, _)
ProfileProduct(profile, point) ==
  IF point = <<>> THEN One
  ELSE Mul(ProfileValue(profile, Head(point)), ProfileProduct(profile, Tail(point)))

\* getValue of a closed-form variant
getValue(d, argument) == ProfileProduct(d.profile, argument)

\* the two loops of calculateStaticDistributionGrid over one grid pair
StaticValues(d, g) == [l \in 1..getSize(g) |-> getValue(d, getPoint(g, l))]
\* the second loop left out: the log grid keeps the values it was created with
StaticLogValuesUnfilled(d, g) == [l \in 1..getSize(g) |-> LZero]
StaticLogValues(d, g) == [l \in 1..getSize(g) |-> NegLog(getValue(d, getPoint(g, l)))]

\* TargetDistribution::calculateStaticDistributionGrid
calculateStaticDistributionGrid(d) ==
  LET Reweight(d1) ==
        IF isReweightGridActive(d1)
        THEN IF IsNull(d1.reweight_grid_pntr_) \/ IsNull(d1.log_reweight_grid_pntr_)
             THEN Fail(d1, "the grids have not been setup using setupReweightGrids")
             ELSE Step([d1 EXCEPT
                    !.reweight_grid_pntr_.v = StaticValues(d, d.reweight_grid_pntr_),
                    !.log_reweight_grid_pntr_ =
                       LsetMinToZero([@ EXCEPT !.v = StaticLogValues(d, d.reweight_grid_pntr_)]),
                    !.static_grid_calculated = TRUE],
                  "fill", "reweight")
        ELSE [d1 EXCEPT !.static_grid_calculated = TRUE]
  IN  IF ~Ok(d) THEN d
      ELSE IF d.static_grid_calculated /\ ~d.bias_cutoff_active_ THEN d
      ELSE IF IsNull(d.targetdist_grid_pntr_) \/ IsNull(d.log_targetdist_grid_pntr_)
      THEN Fail(d, "the grids have not been setup using setupGrids")
      ELSE Reweight(Step([d EXCEPT
               !.targetdist_grid_pntr_.v = StaticValues(d, d.targetdist_grid_pntr_),
               !.log_targetdist_grid_pntr_ =
                  LsetMinToZero([@ EXCEPT !.v = StaticLogValues(d, d.targetdist_grid_pntr_)])],
             "fill", "targetdist"))

\* TargetDistribution::getBeta: fails unless the VesBias is linked
BetaLinked(d) == ~IsNull(d.vesbias_pntr_)

\* x with x^k = e, for the e the model draws
RootOf(e, k) ==
  CHOOSE r \in {<<a, b>> : a \in 0..e[1], b \in 1..e[2]} : Pow(r, k) = e

\* the loop of TD_WellTempered::updateGrid over one grid pair: the log grid
\* gets beta_prime*F, the value grid exp(-beta_prime*F) divided by norm
WellTemperedLog(d, h, g) ==
  [l \in 1..getSize(g) |->
     [negln |-> RootOf(FesBoltzmann(h.fes, getPoint(g, l)), d.bias_factor_[1])]]
WellTemperedValues(d, h, g) ==
  LET Scaled(val) ==
        scaleAllValuesAndDerivatives([g EXCEPT !.v = val], Inv(integrateGrid([g EXCEPT !.v = val]))).v
      Exp(lg) == Scaled([l \in 1..getSize(g) |-> ExpNeg(lg[l])])
  IN  Exp(WellTemperedLog(d, h, g))

\* TD_WellTempered::updateGrid
TD_WellTempered_updateGrid(d, h) ==
  LET Reweight(d1) ==
        IF isReweightGridActive(d1)
        THEN IF IsNull(d1.reweight_grid_pntr_) \/ IsNull(d1.fes_rwgrid_pntr_)
                \/ IsNull(d1.log_reweight_grid_pntr_)
             THEN Crash(d1)
             ELSE Step([d1 EXCEPT
                    !.reweight_grid_pntr_.v = WellTemperedValues(d, h, d.reweight_grid_pntr_),
                    !.log_reweight_grid_pntr_ =
                       LsetMinToZero([@ EXCEPT !.v = WellTemperedLog(d, h, d.reweight_grid_pntr_)])],
                  "fill", "reweight")
        ELSE d1
  IN  IF ~Ok(d) THEN d
      ELSE IF ~BetaLinked(d)
      THEN Fail(d, "The VesBias has to be linked to use TargetDistribution::getBeta()")
      ELSE IF IsNull(d.fes_grid_pntr_)
      THEN Fail(d, "the FES grid has to be linked to use TD_WellTempered!")
      ELSE IF IsNull(d.targetdist_grid_pntr_) \/ IsNull(d.log_targetdist_grid_pntr_)
      THEN Crash(d)
      ELSE Reweight(Step([d EXCEPT
               !.targetdist_grid_pntr_.v = WellTemperedValues(d, h, d.targetdist_grid_pntr_),
               !.log_targetdist_grid_pntr_ =
                  LsetMinToZero([@ EXCEPT !.v = WellTemperedLog(d, h, d.targetdist_grid_pntr_)])],
             "fill", "targetdist"))

\* point[cv_var_idx_[k]] of std::vector<double> point: a read past the end
\* of the vector is undefined; h.oob is the outcome ("SIGSEGV", or the
\* number found in the memory behind the vector)
OobOutcomes == {"SIGSEGV", "0", "7"}
OobValue(oob) == IF oob = "7" THEN R(7) ELSE R(0)
ReadsPastPoint(d, g) == \E k \in 1..Len(d.cv_var_idx_) : d.cv_var_idx_[k] >= Len(g.nbins)
Coordinate(d, h, point, cv) ==
  IF cv + 1 \in 1..Len(point) THEN R(point[cv + 1]) ELSE OobValue(h.oob)

\* evaluator_evaluate of the expressions the model draws FUNCTION from
Evaluate(d, h, point) ==
  CASE d.func = "s1" -> Coordinate(d, h, point, 0)
    [] d.func = "s1-1" -> Sub(Coordinate(d, h, point, 0), One)
    [] d.func = "2" -> R(2)
    [] d.func = "s2" -> Coordinate(d, h, point, 1)
    [] d.func = "exp(-beta*FE)" -> FesBoltzmann(h.fes, point)
    [] d.func = "s1*exp(-FE/kBT)" ->
         Mul(Coordinate(d, h, point, 0), FesBoltzmann(h.fes, point))

\* a pass that treats every distribution as shifted to zero
MathevalPassAsShifted(d, h, g, lg, negative, notnormalized) ==
  LET n == getSize(g)
      val == [l \in 1..n |-> Evaluate(d, h, getPoint(g, l))]
      norm == integrateGrid([g EXCEPT !.v = val])
      lraw == [l \in 1..n |-> NegLog(val[l])]
  IN  IF ReadsPastPoint(d, g) /\ h.oob = "SIGSEGV"
      THEN [g |-> g, lg |-> lg, fatal |-> "SIGSEGV"]
      ELSE IF Less(Zero, norm)
      THEN [g |-> scaleAllValuesAndDerivatives([g EXCEPT !.v = val], Inv(norm)),
            lg |-> LsetMinToZero([lg EXCEPT !.v = lraw]), fatal |-> "none"]
      ELSE [g |-> [g EXCEPT !.v = val], lg |-> LsetMinToZero([lg EXCEPT !.v = lraw]),
            fatal |-> "none"]

\* One pass of TD_Matheval::updateGrid over a grid pair (g, lg): the pair
\* after the pass and the error raised in it, if any.
MathevalPass(d, h, g, lg, negative, notnormalized) ==
  LET n == getSize(g)
      Result(raw, lraw, stop, norm) ==
        IF ReadsPastPoint(d, g) /\ h.oob = "SIGSEGV"
        THEN [g |-> g, lg |-> lg, fatal |-> "SIGSEGV"]
        ELSE IF stop <= n
        THEN [g |-> [g EXCEPT !.v = raw], lg |-> [lg EXCEPT !.v = lraw],
              fatal |-> negative]
        ELSE IF Less(Zero, norm)
        THEN [g |-> scaleAllValuesAndDerivatives([g EXCEPT !.v = raw], Inv(norm)),
              lg |-> LsetMinToZero([lg EXCEPT !.v = lraw]), fatal |-> "none"]
        ELSE IF ~d.shift_targetdist_to_zero_
        THEN [g |-> [g EXCEPT !.v = raw], lg |-> [lg EXCEPT !.v = lraw],
              fatal |-> notnormalized]
        ELSE [g |-> [g EXCEPT !.v = raw], lg |-> LsetMinToZero([lg EXCEPT !.v = lraw]),
              fatal |-> "none"]
      Written(val, stop) ==
        Result([l \in 1..n |-> IF l < stop THEN val[l] ELSE g.v[l]],
               [l \in 1..n |-> IF l < stop THEN NegLog(val[l]) ELSE lg.v[l]],
               stop, integrateGrid([g EXCEPT !.v = val]))
      Stopped(val, bad) ==
        Written(val, IF bad = {} THEN n + 1 ELSE CHOOSE l \in bad : \A m \in bad : l <= m)
      Evaluated(val) ==
        Stopped(val, {l \in 1..n : Less(val[l], Zero) /\ ~d.shift_targetdist_to_zero_})
  IN  Evaluated([l \in 1..n |-> Evaluate(d, h, getPoint(g, l))])

\* TD_Matheval::updateGrid
TD_Matheval_updateGrid(d, h) ==
  LET Store(d1, q) ==
        Step([d1 EXCEPT !.reweight_grid_pntr_ = q.g,
                        !.log_reweight_grid_pntr_ = q.lg,
                        !.fatal = q.fatal], "fill", "reweight")
      Reweight(d1) ==
        IF ~Ok(d1) \/ ~isReweightGridActive(d1) THEN d1
        ELSE IF d1.use_fes_ /\ IsNull(d1.fes_rwgrid_pntr_)
        THEN Fail(d1, "the FES reweight grid has to be linked to the free energy in the target distribution")
        ELSE IF IsNull(d1.reweight_grid_pntr_) \/ IsNull(d1.log_reweight_grid_pntr_)
        THEN Crash(d1)
        ELSE Store(d1, MathevalPass(d1, h, d1.reweight_grid_pntr_, d1.log_reweight_grid_pntr_,
                                    "The reweight grid function gives negative values",
                                    "The reweight grid function cannot be normalized proberly"))
      Primary(p) ==
        Reweight(Step([d EXCEPT !.targetdist_grid_pntr_ = p.g,
                                !.log_targetdist_grid_pntr_ = p.lg,
                                !.fatal = p.fatal], "fill", "targetdist"))
  IN  IF ~Ok(d) THEN d
      ELSE IF d.use_fes_ /\ IsNull(d.fes_grid_pntr_)
      THEN Fail(d, "the FES grid has to be linked to the free energy in the target distribution")
      ELSE IF (d.use_kbt_ \/ d.use_beta_) /\ ~BetaLinked(d)
      THEN Fail(d, "The VesBias has to be linked to use TargetDistribution::getBeta()")
      ELSE IF IsNull(d.targetdist_grid_pntr_) \/ IsNull(d.log_targetdist_grid_pntr_)
      THEN Crash(d)
      ELSE Primary(MathevalPass(d, h, d.targetdist_grid_pntr_, d.log_targetdist_grid_pntr_,
                                "The target distribution function gives negative values",
                                "The target distribution function cannot be normalized proberly"))

\* TargetDistModifer::getModifedTargetDistValue of the WellTemperedModifer
getModifedTargetDistValue(modifer, value, cv_values) == Pow(value, modifer.invbiasf[1])

\* the loop of applyTargetDistModiferToGrid over one grid pair
ModifedPair(modifer, g, lg) ==
  LET Pair(val, norm) ==
        [g  |-> scaleAllValuesAndDerivatives([g EXCEPT !.v = val], Inv(norm)),
         lg |-> LsetMinToZero([lg EXCEPT !.v = [l \in 1..getSize(g) |-> NegLog(val[l])]]),
         norm |-> norm]
      Modifed(val) == Pair(val, integrateGrid([g EXCEPT !.v = val]))
  IN  Modifed([l \in 1..getSize(g) |->
                 getModifedTargetDistValue(modifer, g.v[l], getPoint(g, l))])

\* the pass over the reweighting pair stored in the primary pair
applyTargetDistModiferStoringInPrimary(d, modifer) ==
  LET Store(d1, q) ==
        StepNorm([d1 EXCEPT !.targetdist_grid_pntr_ = q.g,
                            !.log_targetdist_grid_pntr_ = q.lg],
                 "modifier", "reweight", q.norm)
      Reweight(d1) ==
        IF ~isReweightGridActive(d1) THEN d1
        ELSE IF IsNull(d1.reweight_grid_pntr_) \/ IsNull(d1.log_reweight_grid_pntr_)
        THEN Crash(d1)
        ELSE Store(d1, ModifedPair(modifer, d1.reweight_grid_pntr_, d1.log_reweight_grid_pntr_))
      Primary(p) ==
        Reweight(StepNorm([d EXCEPT !.targetdist_grid_pntr_ = p.g,
                                    !.log_targetdist_grid_pntr_ = p.lg],
                          "modifier", "targetdist", p.norm))
  IN  IF ~Ok(d) THEN d
      ELSE IF IsNull(d.targetdist_grid_pntr_) \/ IsNull(d.log_targetdist_grid_pntr_)
      THEN Crash(d)
      ELSE Primary(ModifedPair(modifer, d.targetdist_grid_pntr_, d.log_targetdist_grid_pntr_))

\* TargetDistribution::applyTargetDistModiferToGrid
applyTargetDistModiferToGrid(d, modifer) ==
  LET Store(d1, q) ==
        StepNorm([d1 EXCEPT !.reweight_grid_pntr_ = q.g,
                            !.log_reweight_grid_pntr_ = q.lg],
                 "modifier", "reweight", q.norm)
      Reweight(d1) ==
        IF ~isReweightGridActive(d1) THEN d1
        ELSE IF IsNull(d1.reweight_grid_pntr_) \/ IsNull(d1.log_reweight_grid_pntr_)
        THEN Crash(d1)
        ELSE Store(d1, ModifedPair(modifer, d1.reweight_grid_pntr_, d1.log_reweight_grid_pntr_))
      Primary(p) ==
        Reweight(StepNorm([d EXCEPT !.targetdist_grid_pntr_ = p.g,
                                    !.log_targetdist_grid_pntr_ = p.lg],
                          "modifier", "targetdist", p.norm))
  IN  IF ~Ok(d) THEN d
      ELSE IF IsNull(d.targetdist_grid_pntr_) \/ IsNull(d.log_targetdist_grid_pntr_)
      THEN Crash(d)
      ELSE Primary(ModifedPair(modifer, d.targetdist_grid_pntr_, d.log_targetdist_grid_pntr_))

\* the loop without the division by norm that follows it
CutoffValuesUnscaled(h, g) ==
  LET n == getSize(g)
      sw == [l \in 1..n |-> SwitchingFunction(BiasWithoutCutoff(h.bias, getPoint(g, l)))]
  IN  [g EXCEPT !.v = [l \in 1..n |-> Mul(Mul(g.v[l], sw[l].swf), sw[l].deriv_factor_swf)]]

\* the loop of updateBiasCutoffForTargetDistGrid over one value grid
CutoffValues(h, g) ==
  LET n == getSize(g)
      Scaled(sw, ps) ==
        scaleAllValuesAndDerivatives(
          [g EXCEPT !.v = [l \in 1..n |-> Mul(ps[l], sw[l].deriv_factor_swf)]],
          Inv(integrateGrid([g EXCEPT !.v = ps])))
      Switched(sw) == Scaled(sw, [l \in 1..n |-> Mul(g.v[l], sw[l].swf)])
  IN  Switched([l \in 1..n |-> SwitchingFunction(BiasWithoutCutoff(h.bias, getPoint(g, l)))])

\* TargetDistribution::updateBiasCutoffForTargetDistGrid
updateBiasCutoffForTargetDistGrid(d, h) ==
  LET Reweight(d1) ==
        IF ~isReweightGridActive(d1) THEN d1
        ELSE IF IsNull(d1.reweight_grid_pntr_) \/ IsNull(d1.bias_withoutcutoff_rwgrid_pntr_)
        THEN Crash(d1)
        ELSE Step([d1 EXCEPT !.reweight_grid_pntr_ = CutoffValues(h, @)],
                  "cutoff", "reweight")
  IN  IF ~Ok(d) THEN d
      ELSE IF IsNull(d.vesbias_pntr_)
      THEN Fail(d, "The VesBias has to be linked to use updateBiasCutoffForTargetDistGrid()")
      ELSE IF ~h.biasCutoffActive
      THEN Fail(d, "updateBiasCutoffForTargetDistGrid() should only be used if the bias cutoff is active")
      ELSE IF IsNull(d.bias_withoutcutoff_grid_pntr_)
      THEN Fail(d, "the bias without cutoff grid has to be linked")
      ELSE IF IsNull(d.targetdist_grid_pntr_) THEN Crash(d)
      ELSE Reweight(Step([d EXCEPT !.targetdist_grid_pntr_ = CutoffValues(h, @)],
                         "cutoff", "targetdist"))

\* TargetDistribution::normalizeTargetDistGrid
normalizeTargetDistGrid(d) ==
  LET Negative(d1) ==
        Fail(d1, "something went wrong trying to normalize the target distribution, integrating over it gives a negative value")
      ReweightDone(d2, normalize_reweight) ==
        IF Less(normalize_reweight, Zero) THEN Negative(d2) ELSE d2
      Reweight(d1, normalize_reweight) ==
        ReweightDone(StepNorm([d1 EXCEPT !.reweight_grid_pntr_ = normalizeGrid(@)],
                              "normalize", "reweight", normalize_reweight),
                     normalize_reweight)
      PrimaryDone(d1, normalization) ==
        IF Less(normalization, Zero) THEN Negative(d1)
        ELSE IF ~isReweightGridActive(d1) THEN d1
        ELSE IF IsNull(d1.reweight_grid_pntr_) THEN Crash(d1)
        ELSE Reweight(d1, integrateGrid(d1.reweight_grid_pntr_))
      Primary(normalization) ==
        PrimaryDone(StepNorm([d EXCEPT !.targetdist_grid_pntr_ = normalizeGrid(@)],
                             "normalize", "targetdist", normalization),
                    normalization)
  IN  IF ~Ok(d) THEN d
      ELSE IF IsNull(d.targetdist_grid_pntr_) THEN Crash(d)
      ELSE Primary(integrateGrid(d.targetdist_grid_pntr_))

\* the log grid that updateLogTargetDistGrid computes from a value grid
LogOfGrid(g, lg) ==
  LsetMinToZero([lg EXCEPT !.v = [l \in 1..getSize(g) |-> NegLog(g.v[l])]])

\* TargetDistribution::updateLogTargetDistGrid
updateLogTargetDistGrid(d) ==
  LET Reweight(d1) ==
        IF ~isReweightGridActive(d1) THEN d1
        ELSE IF IsNull(d1.reweight_grid_pntr_) \/ IsNull(d1.log_reweight_grid_pntr_)
        THEN Crash(d1)
        ELSE Step([d1 EXCEPT !.log_reweight_grid_pntr_ =
                                LogOfGrid(d1.reweight_grid_pntr_, @)],
                  "updateLog", "reweight")
  IN  IF ~Ok(d) THEN d
      ELSE IF IsNull(d.targetdist_grid_pntr_) \/ IsNull(d.log_targetdist_grid_pntr_)
      THEN Crash(d)
      ELSE Reweight(Step([d EXCEPT !.log_targetdist_grid_pntr_ =
                                      LogOfGrid(d.targetdist_grid_pntr_, @)],
                         "updateLog", "targetdist"))

\* TargetDistribution::setMinimumOfTargetDistGridToZero
setMinimumOfTargetDistGridToZero(d) ==
  LET Reweight(d1) ==
        IF ~isReweightGridActive(d1) THEN d1
        ELSE IF IsNull(d1.reweight_grid_pntr_) THEN Crash(d1)
        ELSE Step([d1 EXCEPT !.reweight_grid_pntr_ = setMinToZero(@)],
                  "setMinToZero", "reweight")
  IN  IF ~Ok(d) THEN d
      ELSE IF IsNull(d.targetdist_grid_pntr_) THEN Crash(d)
      ELSE updateLogTargetDistGrid(normalizeTargetDistGrid(
             Reweight(Step([d EXCEPT !.targetdist_grid_pntr_ = setMinToZero(@)],
                           "setMinToZero", "targetdist"))))

\* the normalization check of update(): warns, never fails
CheckNormalization(d) ==
  IF ~Ok(d) \/ ~(d.check_normalization_ /\ ~d.bias_cutoff_active_) THEN d
  ELSE IF IsNull(d.targetdist_grid_pntr_) THEN Crash(d)
  ELSE LET normalization == integrateGrid(d.targetdist_grid_pntr_)
           d1 == Step(d, "checkNormalization", "targetdist")
       IN  IF Less(normalization, <<9, 10>>) \/ Less(<<11, 10>>, normalization)
           THEN [d1 EXCEPT !.warnings = @ \cup {"not proberly normalized"}]
           ELSE d1

\* the non-negativity check of update(): warns, never fails
CheckNonNegative(d) ==
  IF ~Ok(d) \/ ~d.check_nonnegative_ THEN d
  ELSE IF IsNull(d.targetdist_grid_pntr_) THEN Crash(d)
  ELSE LET grid_min_value == getMinValue(d.targetdist_grid_pntr_)
           d1 == Step(d, "checkNonNegative", "targetdist")
       IN  IF Less(grid_min_value, <<-1, 50>>)
           THEN [d1 EXCEPT !.warnings = @ \cup {"has negative values"}]
           ELSE d1

RECURSIVE ApplyModifers(_, _)
ApplyModifers(d, i) ==
  IF i > Len(d.targetdist_modifer_pntrs_) THEN d
  ELSE ApplyModifers(applyTargetDistModiferToGrid(d, d.targetdist_modifer_pntrs_[i]), i + 1)

RECURSIVE update(_, _)

\* the first loop of TD_LinearCombination::updateGrid, children i..ndist_
RECURSIVE UpdateChildren(_, _, _)
UpdateChildren(d, h, i) ==
  LET Updated(c) ==
        IF ~Ok(c) THEN Fail([d EXCEPT !.distribution_pntrs_[i] = c], c.fatal)
        ELSE UpdateChildren([d EXCEPT !.distribution_pntrs_[i] = c], h, i + 1)
  IN  IF ~Ok(d) \/ i > d.ndist_ THEN d
      ELSE Updated(update(IF isReweightGridActive(d)
                          THEN setReweightGridActive(d.distribution_pntrs_[i])
                          ELSE d.distribution_pntrs_[i], h))

\* value += weights_[i]*grid_pntrs_[i]->getValue(l) over the children
RECURSIVE WeightedSum(_, _, _, _)
\* the children summed without their weights
RECURSIVE UnweightedSum(_, _, _, _)
UnweightedSum(weights, grids, l, i) ==
  IF i = 0 THEN Zero
  ELSE Add(UnweightedSum(weights, grids, l, i - 1), grids[i].v[l])
WeightedSum(weights, grids, l, i) ==
  IF i = 0 THEN Zero
  ELSE Add(WeightedSum(weights, grids, l, i - 1), Mul(weights[i], grids[i].v[l]))

CombinedPair(d, g, lg, grids) ==
  LET Pair(val) ==
        [g  |-> [g EXCEPT !.v = val],
         lg |-> LsetMinToZero([lg EXCEPT !.v = [l \in 1..getSize(g) |-> NegLog(val[l])]])]
  IN  Pair([l \in 1..getSize(g) |-> WeightedSum(d.weights_, grids, l, d.ndist_)])

\* TD_LinearCombination::updateGrid
TD_LinearCombination_updateGrid(d, h) ==
  LET StoreReweight(d2, q) ==
        Step([d2 EXCEPT !.reweight_grid_pntr_ = q.g,
                        !.log_reweight_grid_pntr_ = q.lg], "fill", "reweight")
      Reweight(d2) ==
        IF ~isReweightGridActive(d2) THEN d2
        ELSE IF IsNull(d2.reweight_grid_pntr_) \/ IsNull(d2.log_reweight_grid_pntr_)
                \/ \E i \in 1..d2.ndist_ : IsNull(d2.rw_grid_pntrs_[i])
        THEN Crash(d2)
        ELSE StoreReweight(d2,
               CombinedPair(d2, d2.reweight_grid_pntr_, d2.log_reweight_grid_pntr_,
                 [i \in 1..d2.ndist_ |-> d2.distribution_pntrs_[i].reweight_grid_pntr_]))
      Store(d1, p) ==
        Reweight(Step([d1 EXCEPT !.targetdist_grid_pntr_ = p.g,
                                 !.log_targetdist_grid_pntr_ = p.lg], "fill", "targetdist"))
      Combine(d1) ==
        IF ~Ok(d1) THEN d1
        ELSE IF IsNull(d1.targetdist_grid_pntr_) \/ IsNull(d1.log_targetdist_grid_pntr_)
                \/ \E i \in 1..d1.ndist_ : IsNull(d1.grid_pntrs_[i])
        THEN Crash(d1)
        ELSE Store(d1,
               CombinedPair(d1, d1.targetdist_grid_pntr_, d1.log_targetdist_grid_pntr_,
                 [i \in 1..d1.ndist_ |-> d1.distribution_pntrs_[i].targetdist_grid_pntr_]))
  IN  Combine(UpdateChildren(d, h, 1))

\* the virtual updateGrid
updateGrid(d, h) ==
  LET d0 == Step(d, "updateGrid", "call")
  IN  CASE d.name_ = "STATIC" -> calculateStaticDistributionGrid(d0)
        [] d.name_ = "WELL_TEMPERED" -> TD_WellTempered_updateGrid(d0, h)
        [] d.name_ = "MATHEVAL_DIST" -> TD_Matheval_updateGrid(d0, h)
        [] d.name_ = "LINEAR_COMBINATION" -> TD_LinearCombination_updateGrid(d0, h)

UpdateCutoff(d, h) ==
  IF d.bias_cutoff_active_ THEN updateBiasCutoffForTargetDistGrid(d, h) ELSE d
\* the shift-to-zero step taken whether or not the cutoff is active
UpdateShiftWithCutoff(d) ==
  IF d.shift_targetdist_to_zero_ THEN setMinimumOfTargetDistGridToZero(d) ELSE d
UpdateShift(d) ==
  IF d.shift_targetdist_to_zero_ /\ ~d.bias_cutoff_active_
  THEN setMinimumOfTargetDistGridToZero(d) ELSE d
UpdateNormalize(d) ==
  IF d.force_normalization_ /\ ~d.bias_cutoff_active_
  THEN normalizeTargetDistGrid(d) ELSE d

\* TargetDistribution::update
update(d, h) ==
  IF ~Ok(d) THEN d
  ELSE CheckNonNegative(CheckNormalization(UpdateNormalize(UpdateShift(
         UpdateCutoff(ApplyModifers(
           updateGrid([d EXCEPT !.steps = <<>>, !.warnings = {}], h), 1), h)))))

\* ------------------------------------------------------------------------
\* Restart
\* ------------------------------------------------------------------------
\* Grid::writeToFile: the grid parameters, then one line per point with the
\* coordinates of the point and the value
writeToFile(g) ==
  [exists |-> TRUE, min |-> g.min, max |-> g.max, nbins |-> g.nbins,
   lines |-> [l \in 1..getSize(g) |-> [point |-> getPoint(g, l), value |-> g.v[l]]]]

\* Grid::create(funcl, args, ifile, ...): the grid a file describes
Grid_create(file) ==
  [min |-> file.min, max |-> file.max, nbins |-> file.nbins,
   v |-> [l \in 1..Len(file.lines) |-> file.lines[l].value]]

\* the restored values copied before the point counts are compared
readInRestartCopyingFirst(d, file) ==
  IF ~Ok(d) THEN d
  ELSE IF ~isDynamic(d)
  THEN Fail(d, "this should only be used for dynamically updated target distributions!")
  ELSE IF ~file.exists
  THEN Fail(d, "problem with reading previous target distribution when restarting, cannot find file")
  ELSE IF IsNull(d.targetdist_grid_pntr_) THEN Crash(d)
  ELSE LET d1 == [d EXCEPT !.targetdist_grid_pntr_.v = Grid_create(file).v, !.steps = <<>>]
       IN  IF getSize(Grid_create(file)) # getSize(d.targetdist_grid_pntr_)
           THEN Fail(d1, "problem with reading previous target distribution when restarting, the grid is not of the correct size!")
           ELSE updateLogTargetDistGrid(d1)

\* the restored values copied and the log grid left as it was
readInRestartKeepingLog(d, file) ==
  IF ~Ok(d) THEN d
  ELSE IF ~isDynamic(d)
  THEN Fail(d, "this should only be used for dynamically updated target distributions!")
  ELSE IF ~file.exists
  THEN Fail(d, "problem with reading previous target distribution when restarting, cannot find file")
  ELSE IF IsNull(d.targetdist_grid_pntr_) THEN Crash(d)
  ELSE IF getSize(Grid_create(file)) # getSize(d.targetdist_grid_pntr_)
  THEN Fail(d, "problem with reading previous target distribution when restarting, the grid is not of the correct size!")
  ELSE [d EXCEPT !.targetdist_grid_pntr_.v = Grid_create(file).v, !.steps = <<>>]

\* TargetDistribution::readInRestartTargetDistGrid; VesTools::copyGridValues
\* copies the value of every point of the restored grid into the live grid.
\* steps then holds what the restart did.
readInRestartTargetDistGrid(d, file) ==
  IF ~Ok(d) THEN d
  ELSE IF ~isDynamic(d)
  THEN Fail(d, "this should only be used for dynamically updated target distributions!")
  ELSE IF ~file.exists
  THEN Fail(d, "problem with reading previous target distribution when restarting, cannot find file")
  ELSE IF IsNull(d.targetdist_grid_pntr_) THEN Crash(d)
  ELSE IF getSize(Grid_create(file)) # getSize(d.targetdist_grid_pntr_)
  THEN Fail(d, "problem with reading previous target distribution when restarting, the grid is not of the correct size!")
  ELSE updateLogTargetDistGrid(
         [d EXCEPT !.targetdist_grid_pntr_.v = Grid_create(file).v, !.steps = <<>>])

\* ------------------------------------------------------------------------
\* Inputs
\* ------------------------------------------------------------------------
Given(v) == [given |-> TRUE, value |-> v]
Absent == [given |-> FALSE, value |-> Zero]

BiasCutoffInputs == {Absent, Given(R(-1)), Given(Zero), Given(One)}
WellTemperedFactorInputs == {Absent, Given(R(-1)), Given(<<1, 2>>)}
ProfileInputs == {"flat", "ramp", "dip", "step"}
BiasFactorInputs == {<<1, 2>>, R(1), R(2)}
FunctionInputs == {"s1", "s1-1", "2", "exp(-beta*FE)", "s2", "x"}

\* the words common to every variant
BaseOptions(name, c, w, s, n) ==
  [name |-> name,
   words |-> (IF c.given THEN {"BIAS_CUTOFF"} ELSE {})
             \cup (IF w.given THEN {"WELLTEMPERED_FACTOR"} ELSE {})
             \cup (IF s THEN {"SHIFT_TO_ZERO"} ELSE {})
             \cup (IF n THEN {"NORMALIZE"} ELSE {}),
   BIAS_CUTOFF |-> c.value,
   WELLTEMPERED_FACTOR |-> w.value]

With(o, key, field) == [o EXCEPT !.words = @ \cup {key}] @@ field

BaseOptionSet(name) ==
  {BaseOptions(name, c, w, s, n) :
     c \in BiasCutoffInputs, w \in WellTemperedFactorInputs,
     s \in BOOLEAN, n \in BOOLEAN}

LeafOptions ==
  {With(o, "PROFILE", [PROFILE |-> p]) : o \in BaseOptionSet("STATIC"), p \in ProfileInputs}
  \cup {With(o, "BIASFACTOR", [BIASFACTOR |-> b]) :
          o \in BaseOptionSet("WELL_TEMPERED"), b \in BiasFactorInputs}
  \cup {With(o, "FUNCTION", [FUNCTION |-> f]) :
          o \in BaseOptionSet("MATHEVAL_DIST"), f \in FunctionInputs}

\* the child distributions the model builds composites from
Plain(name) == BaseOptions(name, Absent, Absent, FALSE, FALSE)
ChildOptions ==
  <<With(Plain("STATIC"), "PROFILE", [PROFILE |-> "flat"]),
    With(BaseOptions("STATIC", Absent, Absent, FALSE, TRUE), "PROFILE", [PROFILE |-> "ramp"]),
    With(Plain("STATIC"), "PROFILE", [PROFILE |-> "dip"]),
    With(Plain("WELL_TEMPERED"), "BIASFACTOR", [BIASFACTOR |-> R(2)]),
    With(BaseOptions("MATHEVAL_DIST", Absent, Absent, TRUE, FALSE), "FUNCTION", [FUNCTION |-> "s1-1"]),
    With(BaseOptions("STATIC", Given(One), Absent, FALSE, FALSE), "PROFILE", [PROFILE |-> "ramp"]),
    With(Plain("WELL_TEMPERED"), "BIASFACTOR", [BIASFACTOR |-> R(1)]),
    With(Plain("STATIC"), "PROFILE", [PROFILE |-> "ramp"])>>

DistributionInputs ==
  {<<>>,
   <<ChildOptions[1]>>,
   <<ChildOptions[1], ChildOptions[1], ChildOptions[2]>>,
   <<ChildOptions[1], ChildOptions[2]>>,
   <<ChildOptions[1], ChildOptions[8]>>,
   <<ChildOptions[2], ChildOptions[3]>>,
   <<ChildOptions[2], ChildOptions[4]>>,
   <<ChildOptions[1], ChildOptions[5]>>,
   <<ChildOptions[6], ChildOptions[1]>>,
   <<ChildOptions[1], ChildOptions[7]>>}

WeightsInputs ==
  {<<R(1), R(3)>>, <<R(0), R(0)>>, <<R(2), R(-1)>>, <<R(1), R(1), R(2)>>}

CompositeOptions ==
  {With(o, "DISTRIBUTION", [DISTRIBUTION |-> ds]) :
     o \in BaseOptionSet("LINEAR_COMBINATION"), ds \in DistributionInputs \ {<<>>}}
  \cup {o @@ [DISTRIBUTION |-> <<>>] : o \in BaseOptionSet("LINEAR_COMBINATION")}

\* a composite with or without the WEIGHTS keyword
WithWeights(o) == {o} \cup {With(o, "WEIGHTS", [WEIGHTS |-> w]) : w \in WeightsInputs}

\* every keyword combination of every variant
Options == LeafOptions \cup UNION {WithWeights(o) : o \in CompositeOptions}

Static(p, c, w, s, n) ==
  With(BaseOptions("STATIC", c, w, s, n), "PROFILE", [PROFILE |-> p])
WellTempered(b, c) ==
  With(BaseOptions("WELL_TEMPERED", c, Absent, FALSE, FALSE), "BIASFACTOR", [BIASFACTOR |-> b])
Matheval(f, w, s) ==
  With(BaseOptions("MATHEVAL_DIST", Absent, w, s, FALSE), "FUNCTION", [FUNCTION |-> f])
LinearCombination(c, w, n, ds) ==
  With(BaseOptions("LINEAR_COMBINATION", c, w, FALSE, n), "DISTRIBUTION", [DISTRIBUTION |-> ds])
Weighted(o, w) == With(o, "WEIGHTS", [WEIGHTS |-> w])

\* the distributions whose whole life the model follows
LifecycleOptions ==
  {Static("flat", Absent, Absent, FALSE, FALSE),
   Static("ramp", Absent, Absent, FALSE, TRUE),
   Static("dip", Absent, Absent, FALSE, FALSE),
   Static("ramp", Absent, Absent, TRUE, FALSE),
   Static("step", Absent, Given(<<1, 2>>), FALSE, FALSE),
   Static("step", Absent, Given(<<1, 2>>), FALSE, TRUE),
   Static("ramp", Given(One), Absent, FALSE, FALSE),
   Static("ramp", Given(One), Absent, TRUE, FALSE),
   WellTempered(R(2), Absent),
   WellTempered(R(2), Given(One)),
   WellTempered(R(1), Absent),
   Matheval("s1", Absent, FALSE),
   Matheval("s1-1", Absent, FALSE),
   Matheval("s1-1", Absent, TRUE),
   Matheval("s2", Absent, FALSE),
   Matheval("exp(-beta*FE)", Given(<<1, 2>>), FALSE)}
  \cup {LinearCombination(Absent, Absent, n, <<ChildOptions[1], ChildOptions[8]>>) :
          n \in BOOLEAN}
  \cup {Weighted(LinearCombination(Absent, Absent, n, <<ChildOptions[1], ChildOptions[8]>>), w) :
          n \in BOOLEAN, w \in {<<R(1), R(3)>>, <<R(0), R(0)>>, <<R(2), R(-1)>>}}
  \cup {LinearCombination(Absent, Absent, FALSE, ds) :
          ds \in {<<ChildOptions[1], ChildOptions[2]>>, <<ChildOptions[2], ChildOptions[4]>>,
                  <<ChildOptions[1], ChildOptions[5]>>, <<ChildOptions[6], ChildOptions[1]>>,
                  <<ChildOptions[1], ChildOptions[7]>>}}
  \cup {LinearCombination(Absent, Given(<<1, 2>>), FALSE, <<ChildOptions[1], ChildOptions[8]>>),
        LinearCombination(Given(One), Absent, FALSE, <<ChildOptions[1], ChildOptions[8]>>)}

\* the distributions the set-up calls are tried on
SetupOptions ==
  {Static("flat", Absent, Absent, FALSE, FALSE),
   WellTempered(R(2), Absent),
   Matheval("s1", Absent, FALSE),
   Matheval("s2", Absent, FALSE),
   LinearCombination(Absent, Absent, FALSE, <<ChildOptions[1], ChildOptions[8]>>)}

\* arguments of setupGrids / setupReweightGrids: n Value*, and min, max and
\* nbins vectors of the given lengths, the grid starting at m with b bins
\* of width 1 along every dimension
GridInput(n, lmin, lmax, lnbins, m, b) ==
  [arguments |-> n,
   min |-> [i \in 1..lmin |-> m],
   max |-> [i \in 1..lmax |-> m + b],
   nbins |-> [i \in 1..lnbins |-> b]]

\* inputs with every vector of the length of the argument list
WellFormedInputs(m) ==
  {GridInput(n, n, n, n, m, b) : n \in 0..MaxDim, b \in 1..MaxBins}

\* the reweighting grid of the life cycle: the finest one, starting at m
ReweightInputs(m) ==
  {GridInput(n, n, n, n, m, MaxBins) : n \in 0..MaxDim}

\* every combination of lengths
GridInputs(m) ==
  {GridInput(n, lmin, lmax, lnbins, m, b) :
     n \in 0..MaxDim, lmin \in 0..MaxDim, lmax \in 0..MaxDim, lnbins \in 0..MaxDim,
     b \in 1..MaxBins}

\* ------------------------------------------------------------------------
\* State
\* ------------------------------------------------------------------------
VARIABLES
  td,      \* the target distribution owned by the host, NULL before creation
  opts,    \* the words it was created from
  host,    \* the VesBias: cutoff flag, current FES and bias estimates, and the
           \* file it keeps the target distribution in for a restart
  nupd,    \* number of update() calls made
  last     \* the last call made by the host

vars == <<td, opts, host, nupd, last>>

Running == td # NULL /\ Ok(td)

Init ==
  /\ td = NULL
  /\ opts = NULL
  /\ host \in [biasCutoffActive : BOOLEAN, fes : {"flat"}, bias : {"zero"}, oob : {"0"},
               file : {[exists |-> FALSE]}]
  /\ nupd = 0
  /\ last = [op |-> "none", arg |-> NULL]

\* the host creates the distribution from its TARGET_DISTRIBUTION keyword
Construct(o) ==
  /\ td = NULL
  /\ td' = create(o)
  /\ opts' = o
  /\ UNCHANGED <<host, nupd>>

SetDimension(dimension) ==
  /\ Running
  /\ td' = setDimension(td, dimension)
  /\ UNCHANGED <<opts, host, nupd>>

SetupGrids(a) ==
  /\ Running
  /\ td' = setupGrids(td, a)
  /\ UNCHANGED <<opts, host, nupd>>

SetupReweightGrids(a) ==
  /\ Running
  /\ td' = setupReweightGrids(td, a)
  /\ UNCHANGED <<opts, host, nupd>>

SetupBiasCutoff ==
  /\ Running
  /\ td' = setupBiasCutoff(td)
  /\ UNCHANGED <<opts, host, nupd>>

Link(kind) ==
  /\ Running
  /\ td' = link(td, kind, Pntr(kind))
  /\ UNCHANGED <<opts, host, nupd>>

\* the host refreshes its estimates and calls update()
Update(fes, bias, oob) ==
  /\ Running
  /\ nupd < MaxUpdates
  /\ host' = [host EXCEPT !.fes = fes, !.bias = bias, !.oob = oob]
  /\ td' = update(td, host')
  /\ nupd' = nupd + 1
  /\ UNCHANGED opts

\* the call is recorded in last, or not
Called(op, arg) == last' = [op |-> op, arg |-> arg]
Quiet == UNCHANGED last

\* the distribution and, for a linear combination, its children
Members(d) ==
  IF d.name_ = "LINEAR_COMBINATION" THEN <<d>> \o d.distribution_pntrs_ ELSE <<d>>

\* the host estimates an update() of d can read: only these are varied
FesInputs(d) == IF d.needs_fes_grid_ THEN {"flat", "well"} ELSE {host.fes}
BiasInputs(d) ==
  IF \E i \in 1..Len(Members(d)) : Members(d)[i].bias_cutoff_active_
  THEN {"zero", "slope"} ELSE {host.bias}
OobInputs(d) ==
  IF \E i \in 1..Len(Members(d)) :
       /\ Members(d)[i].name_ = "MATHEVAL_DIST"
       /\ ~IsNull(Members(d)[i].targetdist_grid_pntr_)
       /\ ReadsPastPoint(Members(d)[i], Members(d)[i].targetdist_grid_pntr_)
  THEN OobOutcomes ELSE {host.oob}

\* the host links its objects in this order
LinkOrder ==
  <<"VesBias", "Action", "BiasGrid", "BiasWithoutCutoffGrid", "FesGrid",
    "BiasRWGrid", "BiasWithoutCutoffRWGrid", "FesRWGrid">>
LinkField(d, kind) ==
  CASE kind = "VesBias" -> d.vesbias_pntr_
    [] kind = "Action" -> d.action_pntr_
    [] kind = "BiasGrid" -> d.bias_grid_pntr_
    [] kind = "BiasWithoutCutoffGrid" -> d.bias_withoutcutoff_grid_pntr_
    [] kind = "FesGrid" -> d.fes_grid_pntr_
    [] kind = "BiasRWGrid" -> d.bias_rwgrid_pntr_
    [] kind = "BiasWithoutCutoffRWGrid" -> d.bias_withoutcutoff_rwgrid_pntr_
    [] kind = "FesRWGrid" -> d.fes_rwgrid_pntr_
NextLink(d, k) ==
  /\ LinkField(d, LinkOrder[k]) # Pntr(LinkOrder[k])
  /\ \A j \in 1..(k - 1) : LinkField(d, LinkOrder[j]) # NULL

\* the distribution created from o, or one of its children, is given a
\* positive BIAS_CUTOFF
CutoffGiven(o) ==
  \/ "BIAS_CUTOFF" \in o.words /\ Less(Zero, o.BIAS_CUTOFF)
  \/ /\ "DISTRIBUTION" \in o.words
     /\ \E i \in 1..Len(o.DISTRIBUTION) :
          "BIAS_CUTOFF" \in o.DISTRIBUTION[i].words
            /\ Less(Zero, o.DISTRIBUTION[i].BIAS_CUTOFF)

Fresh(d) ==
  /\ IsNull(d.targetdist_grid_pntr_) /\ IsNull(d.reweight_grid_pntr_)
  /\ \A k \in 1..Len(LinkOrder) : IsNull(LinkField(d, LinkOrder[k]))

\* The life of one distribution in a host: created, set up once, linked,
\* updated.  A host without bias cutoff is told apart only where the
\* distribution reads the host's cutoff.
Next ==
  \/ \E o \in LifecycleOptions :
       (host.biasCutoffActive \/ CutoffGiven(o)) /\ Construct(o) /\ Quiet
  \/ \E a \in WellFormedInputs(0) :
       td # NULL /\ IsNull(td.targetdist_grid_pntr_) /\ SetupGrids(a) /\ Quiet
  \/ \E a \in ReweightInputs(1) :
       td # NULL /\ IsNull(td.reweight_grid_pntr_) /\ SetupReweightGrids(a) /\ Quiet
  \/ /\ td # NULL /\ host.biasCutoffActive /\ ~td.bias_cutoff_active_
     /\ nupd = 0 /\ Fresh(td) /\ SetupBiasCutoff /\ Quiet
  \/ \E k \in 1..Len(LinkOrder) :
       td # NULL /\ nupd = 0 /\ NextLink(td, k) /\ Link(LinkOrder[k]) /\ Quiet
  \/ /\ Running
     /\ \E fes \in FesInputs(td), bias \in BiasInputs(td), oob \in OobInputs(td) :
          Update(fes, bias, oob) /\ Quiet

Spec == Init /\ [][Next]_vars

\* Construction from every keyword combination, followed by grid set-up.
NextCreate ==
  \/ \E o \in Options : Construct(o) /\ Quiet
  \/ td # NULL /\ ~td.bias_cutoff_active_ /\ SetupBiasCutoff /\ Quiet
  \/ \E a \in WellFormedInputs(0) :
       td # NULL /\ IsNull(td.targetdist_grid_pntr_) /\ SetupGrids(a) /\ Quiet
  \/ \E a \in WellFormedInputs(1) :
       td # NULL /\ IsNull(td.reweight_grid_pntr_) /\ SetupReweightGrids(a) /\ Quiet

SpecCreate == Init /\ [][NextCreate]_vars

\* Dimension and grid set-up called in any order with any argument lengths.
NextSetup ==
  \/ \E o \in SetupOptions : Construct(o) /\ Called("create", NULL)
  \/ \E dimension \in 0..MaxDim :
       SetDimension(dimension) /\ Called("setDimension", [dimension |-> dimension])
  \/ \E a \in GridInputs(0) : SetupGrids(a) /\ Called("setupGrids", a)
  \/ \E a \in GridInputs(1) : SetupReweightGrids(a) /\ Called("setupReweightGrids", a)

SpecSetup == Init /\ [][NextSetup]_vars

\* VesLinearExpansion::writeTargetDistToFile: the host writes a value grid
\* to the file a restart reads
WriteTargetDistGrid(g) ==
  /\ Running
  /\ host' = [host EXCEPT !.file = writeToFile(g)]
  /\ UNCHANGED <<td, opts, nupd>>

\* VesLinearExpansion::restartTargetDistributions: the target distribution
\* reads the restart file of the host
Restart ==
  /\ Running
  /\ td' = readInRestartTargetDistGrid(td, host.file)
  /\ UNCHANGED <<opts, host, nupd>>

\* A run that writes its target distribution, goes on, and restarts from
\* the file, or from the file of an earlier run over two points.
NextRestart ==
  \/ \E o \in {Static("ramp", Absent, Absent, FALSE, FALSE),
                Static("ramp", Given(One), Absent, FALSE, FALSE),
                WellTempered(R(2), Absent),
                LinearCombination(Absent, Absent, FALSE, <<ChildOptions[1], ChildOptions[4]>>)} :
       Construct(o) /\ Called("create", NULL)
  \/ \E a \in WellFormedInputs(0) :
       /\ td # NULL /\ IsNull(td.targetdist_grid_pntr_)
       /\ SetupGrids(a) /\ Called("setupGrids", NULL)
  \/ \E a \in ReweightInputs(1) :
       /\ td # NULL /\ IsNull(td.reweight_grid_pntr_) /\ nupd = 0
       /\ SetupReweightGrids(a) /\ Called("setupReweightGrids", NULL)
  \/ \E k \in 1..Len(LinkOrder) :
       /\ td # NULL /\ nupd = 0 /\ NextLink(td, k)
       /\ Link(LinkOrder[k]) /\ Called("link", NULL)
  \/ /\ Running /\ ~IsNull(td.fes_rwgrid_pntr_)
     /\ \E fes \in FesInputs(td), bias \in BiasInputs(td) :
          Update(fes, bias, host.oob) /\ Called("update", NULL)
  \/ /\ Running /\ ~IsNull(td.targetdist_grid_pntr_)
     /\ \E g \in {td.targetdist_grid_pntr_,
                  [NewGrid(<<0>>, <<1>>, <<1>>) EXCEPT !.v = <<<<1, 3>>, <<5, 3>>>>]} :
          WriteTargetDistGrid(g) /\ Called("writeToFile", g)
  \/ Restart /\ Called("readInRestartTargetDistGrid", NULL)

SpecRestart == Init /\ [][NextRestart]_vars

\* the objects a host can pass to a link call
LinkPointers == {Pntr("host"), Pntr("other")}

\* a link call of any kind with any pointer
LinkTo(kind, p) ==
  /\ Running
  /\ td' = link(td, kind, p)
  /\ UNCHANGED <<opts, host, nupd>>

\* Link calls of every kind in any order, each with any pointer.
NextLinking ==
  \/ \E o \in SetupOptions : Construct(o) /\ Quiet
  \/ \E kind \in LinkKinds, p \in LinkPointers : LinkTo(kind, p) /\ Quiet

SpecLinking == Init /\ [][NextLinking]_vars

\* ------------------------------------------------------------------------
\* Properties
\* ------------------------------------------------------------------------
\* every distribution whose update() has returned without a fatal error: td
\* and, for a linear combination, the children it updated
Updated == IF Running /\ nupd >= 1 THEN Members(td) ELSE <<>>

\* logValueGrid[l] = -ln(valueGrid[l]) - c at every point, c the least
\* -ln(valueGrid[i]); compared as doubles, so a NaN equals nothing
LogMatchesValue(d) ==
  LET g == d.targetdist_grid_pntr_
      lg == d.log_targetdist_grid_pntr_
      nl == [l \in 1..getSize(g) |-> NegLog(g.v[l])]
  IN  \E k \in 1..getSize(g) :
        /\ \A j \in 1..getSize(g) : ~LLess(nl[j], nl[k])
        /\ \A l \in 1..getSize(g) :
             /\ ~IsNaN(LSub(nl[l], nl[k]).negln)
             /\ lg.v[l] = LSub(nl[l], nl[k])

\* the value grid holds finite non-negative numbers, not all of them zero
ValueGridProper(d) ==
  LET g == d.targetdist_grid_pntr_
  IN  /\ \A l \in 1..getSize(g) : IsFinite(g.v[l]) /\ ~Less(g.v[l], Zero)
      /\ \E l \in 1..getSize(g) : Less(Zero, g.v[l])

PrimarySteps(d) ==
  LET Primary(s) == s.grid \in {"targetdist", "call"} /\ s.op # "fill"
      sel == SelectSeq(d.steps, Primary)
  IN  [i \in 1..Len(sel) |-> sel[i].op]

IsCheck(op) == op \in {"checkNormalization", "checkNonNegative"}

\* the order the steps are to come in, the two checks left out
StepsInOrder(d) ==
  <<"updateGrid">>
    \o [i \in 1..Len(d.targetdist_modifer_pntrs_) |-> "modifier"]
    \o (IF d.bias_cutoff_active_ THEN <<"cutoff">>
        ELSE (IF d.shift_targetdist_to_zero_
              THEN <<"setMinToZero", "normalize", "updateLog">> ELSE <<>>)
             \o (IF d.force_normalization_ THEN <<"normalize">> ELSE <<>>))

IsPrefix(s, t) == Len(s) <= Len(t) /\ s = SubSeq(t, 1, Len(s))

\* C2: every update() runs updateGrid() first, then each registered modifier
\* once, then the cutoff transform if the cutoff is active and otherwise the
\* shift-to-zero step and/or the forced normalization, and the two checks
\* only after all of these; an update() ended by a fatal error has run a
\* prefix of this order.
C2_FixedOrder ==
  td # NULL =>
    \A i \in 1..Len(Members(td)) :
      LET d == Members(td)[i]
          done == PrimarySteps(d)
          NotCheck(op) == ~IsCheck(op)
          core == SelectSeq(done, NotCheck)
          checks == SelectSeq(done, IsCheck)
      IN  /\ done = core \o checks
          /\ IsPrefix(core, StepsInOrder(d))
          /\ (Ok(d) /\ done # <<>>) => core = StepsInOrder(d)
          /\ checks # <<>> => core = StepsInOrder(d)
          /\ checks \in {<<>>, <<"checkNormalization">>, <<"checkNonNegative">>,
                         <<"checkNormalization", "checkNonNegative">>}

\* an update() has run a modifier and then the cutoff transform
C2_Witness ==
  /\ Running /\ nupd >= 1
  /\ td.bias_cutoff_active_ /\ td.targetdist_modifer_pntrs_ # <<>>
  /\ PrimarySteps(td) = <<"updateGrid", "modifier", "cutoff", "checkNonNegative">>

\* an update() has shifted to zero, and then run the normalization check
C2_WitnessShift ==
  /\ Running /\ nupd >= 1
  /\ PrimarySteps(td) = <<"updateGrid", "setMinToZero", "normalize", "updateLog",
                          "checkNormalization">>

\* C3: for a distribution with force_normalization_ set, after the first and
\* after the second of two successive update() calls the quadrature-weighted
\* sum of the value grid is 1.
C3_NormalizedAfterEachUpdate ==
  \A i \in 1..Len(Updated) :
    Updated[i].force_normalization_
      => integrateGrid(Updated[i].targetdist_grid_pntr_) = One

\* the transform steps the last update() of d applied to one grid pair
TransformSteps(d, grid) ==
  LET OnGrid(s) == s.grid = grid /\ ~IsCheck(s.op)
      sel == SelectSeq(d.steps, OnGrid)
  IN  [i \in 1..Len(sel) |-> sel[i].op]

\* C4: in an update() that returns without a fatal error, a distribution
\* whose reweighting pair is active has had every transform step of the
\* primary pair (fill, modifier, cutoff, shift to zero, normalization, log
\* recomputation) applied to the reweighting pair as well, in the same order,
\* whether the pair was activated before or after an earlier update(); a
\* distribution whose pair is inactive has had no step applied to it and its
\* two reweighting grids are as they were before the update().
C4_ReweightMirrorsPrimary ==
  [][(nupd' = nupd + 1 /\ Ok(td')) =>
       \A i \in 1..Len(Members(td')) :
         LET d == Members(td)[i]
             e == Members(td')[i]
         IN  IF e.reweight_grid_active_
             THEN TransformSteps(e, "reweight") = TransformSteps(e, "targetdist")
             ELSE /\ TransformSteps(e, "reweight") = <<>>
                  /\ e.reweight_grid_pntr_ = d.reweight_grid_pntr_
                  /\ e.log_reweight_grid_pntr_ = d.log_reweight_grid_pntr_]_vars

\* the second update() of a normalized closed-form distribution whose
\* reweighting pair was set up after the first: the pair was never filled,
\* and the normalization has been applied to it as to the primary pair
C4_Witness ==
  /\ Running /\ nupd = 2
  /\ td.name_ = "STATIC" /\ td.reweight_grid_active_
  /\ TransformSteps(td, "targetdist") = <<"normalize">>
  /\ TransformSteps(td, "reweight") = <<"normalize">>
  /\ IsNaN(td.reweight_grid_pntr_.v[1])

\* an update() has filled, shifted, normalized and recomputed the logarithms
\* of both pairs
C4_WitnessShift ==
  /\ Running /\ nupd >= 1 /\ td.reweight_grid_active_
  /\ TransformSteps(td, "reweight") = <<"fill", "setMinToZero", "normalize", "updateLog">>
  /\ TransformSteps(td, "targetdist") = TransformSteps(td, "reweight")

\* no value, log or reweighting grid has been allocated
NoGridAllocated(d) ==
  /\ IsNull(d.targetdist_grid_pntr_) /\ IsNull(d.log_targetdist_grid_pntr_)
  /\ IsNull(d.reweight_grid_pntr_) /\ IsNull(d.log_reweight_grid_pntr_)

\* the words o have SHIFT_TO_ZERO and a BIAS_CUTOFF value > 0
ShiftWithCutoff(o) ==
  /\ "SHIFT_TO_ZERO" \in o.words
  /\ "BIAS_CUTOFF" \in o.words /\ Less(Zero, o.BIAS_CUTOFF)

\* C5: constructing a distribution with SHIFT_TO_ZERO and a BIAS_CUTOFF value
\* > 0 ends in a fatal error raised in the constructor, with every grid
\* pointer still unset; where the variant has both keywords and no
\* WELLTEMPERED_FACTOR is given, it is the base constructor's error for this
\* pair.
C5_ShiftWithCutoffRejected ==
  (td # NULL /\ ShiftWithCutoff(opts)) =>
    /\ ~Ok(td)
    /\ NoGridAllocated(td)
    /\ ({"SHIFT_TO_ZERO", "BIAS_CUTOFF"} \subseteq KeywordsOf(opts.name)
          /\ "WELLTEMPERED_FACTOR" \notin opts.words)
         => td.fatal = "using SHIFT_TO_ZERO with bias cutoff is not allowed"

\* the constructor has enabled the cutoff and then met SHIFT_TO_ZERO
C5_Witness ==
  /\ td # NULL /\ ShiftWithCutoff(opts)
  /\ td.bias_cutoff_active_
  /\ td.fatal = "using SHIFT_TO_ZERO with bias cutoff is not allowed"

\* what the words o give for the four keywords of the base constructor
CutoffPositive(o) == "BIAS_CUTOFF" \in o.words /\ Less(Zero, o.BIAS_CUTOFF)
CutoffNegative(o) == "BIAS_CUTOFF" \in o.words /\ Less(o.BIAS_CUTOFF, Zero)
FactorPositive(o) ==
  "WELLTEMPERED_FACTOR" \in o.words /\ Less(Zero, o.WELLTEMPERED_FACTOR)
FactorNegative(o) ==
  "WELLTEMPERED_FACTOR" \in o.words /\ Less(o.WELLTEMPERED_FACTOR, Zero)
BaseKeywords == {"BIAS_CUTOFF", "WELLTEMPERED_FACTOR", "SHIFT_TO_ZERO", "NORMALIZE"}
\* o gives only base keywords that its variant has
Supported(o) == (o.words \cap BaseKeywords) \subseteq KeywordsOf(o.name)

\* the four inputs the claim lists
ListedRejected(o) ==
  \/ CutoffPositive(o) /\ FactorPositive(o)
  \/ "NORMALIZE" \in o.words /\ "SHIFT_TO_ZERO" \in o.words
  \/ "NORMALIZE" \in o.words /\ CutoffPositive(o)
  \/ CutoffNegative(o)

\* C6 (as stated): construction fails, no grid allocated, for the four listed
\* inputs, and for every other combination of the four keywords that the
\* variant supports the base constructor completes without error.
C6_OnlyListedRejected ==
  td # NULL =>
    /\ ListedRejected(opts) => ~Ok(td) /\ NoGridAllocated(td)
    /\ (Supported(opts) /\ ~ListedRejected(opts)) => Ok(TargetDistribution(opts))

\* C6: construction fails, no grid allocated, for BIAS_CUTOFF > 0 with
\* WELLTEMPERED_FACTOR > 0, NORMALIZE with SHIFT_TO_ZERO, NORMALIZE with
\* BIAS_CUTOFF > 0, a negative BIAS_CUTOFF, and also for SHIFT_TO_ZERO with
\* BIAS_CUTOFF > 0 and for a negative WELLTEMPERED_FACTOR; for every other
\* combination of the four keywords that the variant supports the base
\* constructor completes without error.
C6_Rejected ==
  td # NULL =>
    LET rejected == \/ ListedRejected(opts)
                    \/ "SHIFT_TO_ZERO" \in opts.words /\ CutoffPositive(opts)
                    \/ FactorNegative(opts)
    IN  /\ rejected => ~Ok(td) /\ NoGridAllocated(td)
        /\ (Supported(opts) /\ rejected) => ~Ok(TargetDistribution(opts))
        /\ (Supported(opts) /\ ~rejected) => Ok(TargetDistribution(opts))

\* a negative WELLTEMPERED_FACTOR has ended the base constructor
C6_Witness ==
  /\ td # NULL /\ Supported(opts) /\ FactorNegative(opts) /\ ~ListedRejected(opts)
  /\ td.fatal = "negative value in WELLTEMPERED_FACTOR does not make sense"
  /\ NoGridAllocated(td)

\* the base constructor has completed with two of the keywords given
C6_WitnessAccepted ==
  /\ Running /\ Supported(opts)
  /\ "NORMALIZE" \in opts.words /\ FactorPositive(opts)
  /\ td.force_normalization_ /\ td.targetdist_modifer_pntrs_ # <<>>

\* C7: the dimension is set exactly once: after a setDimension(d) or
\* setupGrids(...) call that set it (for any d and any argument count, 0
\* included) a setDimension call fails with a fatal error and no call leaves
\* getDimension() with a different value.
C7_DimensionSetOnce ==
  [][(Running /\ last.op \in {"setDimension", "setupGrids"}) =>
       /\ last'.op = "setDimension" => ~Ok(td')
       /\ Ok(td') => getDimension(td') = getDimension(td)]_vars

\* C8: setupGrids(arguments, min, max, nbins) sets the dimension to the
\* argument count when the dimension is unset; it fails with a fatal error,
\* allocating no grid, when the dimension was set and differs from the
\* argument count or when min, max or nbins differ in length from the
\* dimension; and when it succeeds the value grid and the log grid are
\* allocated over the same points, those of the call.
C8_SetupGrids ==
  [][(Running /\ last'.op = "setupGrids") =>
       LET a == last'.arg
           dimension == IF getDimension(td) = 0 THEN a.arguments ELSE getDimension(td)
           mismatch == \/ a.arguments # dimension
                       \/ Len(a.min) # dimension
                       \/ Len(a.max) # dimension
                       \/ Len(a.nbins) # dimension
       IN  /\ getDimension(td) = 0 => getDimension(td') = a.arguments
           /\ mismatch =>
                /\ ~Ok(td')
                /\ td'.targetdist_grid_pntr_ = td.targetdist_grid_pntr_
                /\ td'.log_targetdist_grid_pntr_ = td.log_targetdist_grid_pntr_
           /\ Ok(td') =>
                /\ ~mismatch
                /\ ~IsNull(td'.targetdist_grid_pntr_)
                /\ ~IsNull(td'.log_targetdist_grid_pntr_)
                /\ \A f \in {"min", "max", "nbins"} :
                     /\ td'.targetdist_grid_pntr_[f] = a[f]
                     /\ td'.log_targetdist_grid_pntr_[f] = a[f]
                /\ getSize(td'.targetdist_grid_pntr_) = getSize(td'.log_targetdist_grid_pntr_)]_vars

\* setupGrids has bound the dimension and allocated both grids
C8_Witness ==
  /\ Running /\ last.op = "setupGrids"
  /\ getDimension(td) = 1 /\ last.arg.arguments = 1
  /\ ~IsNull(td.targetdist_grid_pntr_) /\ ~IsNull(td.log_targetdist_grid_pntr_)
  /\ getSize(td.targetdist_grid_pntr_) = MaxBins + 1

\* setupGrids has bound the dimension and then failed on the length of a
\* vector, with no grid allocated
C8_WitnessMismatch ==
  /\ td # NULL /\ ~Ok(td) /\ last.op = "setupGrids"
  /\ getDimension(td) = 1 /\ last.arg.arguments = 1 /\ Len(last.arg.min) = 0
  /\ NoGridAllocated(td)

\* a linear combination of two closed-form children
TwoStatic(d) ==
  /\ d.name_ = "LINEAR_COMBINATION" /\ d.ndist_ = 2
  /\ \A i \in 1..2 : d.distribution_pntrs_[i].name_ = "STATIC"

\* no cutoff, modifier or shift acts on d
Untransformed(d) ==
  /\ ~d.bias_cutoff_active_ /\ d.targetdist_modifer_pntrs_ = <<>>
  /\ ~d.shift_targetdist_to_zero_

\* getValue of the closed-form distribution c at the points of its grid
ClosedForm(c) ==
  [l \in 1..getSize(c.targetdist_grid_pntr_) |->
     getValue(c, getPoint(c.targetdist_grid_pntr_, l))]

\* the values v over the grid g divided by their quadrature integral
Normalized(g, v) ==
  [l \in 1..Len(v) |-> Mul(v[l], Inv(integrateGrid([g EXCEPT !.v = v])))]

\* weights_[1]*p1 + weights_[2]*p2 at every point, for child values p1, p2
Combination(d, p1, p2) ==
  [l \in 1..getSize(d.targetdist_grid_pntr_) |->
     Add(Mul(d.weights_[1], p1[l]), Mul(d.weights_[2], p2[l]))]

\* C9 (as stated): for a linear combination of 2 static children with
\* closed-form getValue, after update() the combined value grid is the weighted
\* sum of the children's individually normalized values, normalized again as
\* one whole, so that its quadrature integral is 1.
C9_NormalizedCombination ==
  (Running /\ nupd >= 1 /\ TwoStatic(td) /\ Untransformed(td)
     /\ \A i \in 1..2 : Untransformed(td.distribution_pntrs_[i])) =>
    LET g == td.targetdist_grid_pntr_
        p1 == Normalized(g, ClosedForm(td.distribution_pntrs_[1]))
        p2 == Normalized(g, ClosedForm(td.distribution_pntrs_[2]))
    IN  /\ g.v = Normalized(g, Combination(td, p1, p2))
        /\ integrateGrid(g) = One

\* C9: for a linear combination of 2 static children with closed-form
\* getValue (no cutoff, modifier or shift on the combination), after update()
\* the combined value grid at every point is weights_[1]*p1 + weights_[2]*p2
\* with p1, p2 the children's value grids as their own update() left them: for
\* a child without transforms, its getValue, divided by its integral only if
\* the child has NORMALIZE.  The sum is divided by its own integral only if
\* the combination has NORMALIZE.
C9_Combination ==
  (Running /\ nupd >= 1 /\ TwoStatic(td) /\ Untransformed(td)) =>
    LET g == td.targetdist_grid_pntr_
        c1 == td.distribution_pntrs_[1]
        c2 == td.distribution_pntrs_[2]
        sum == Combination(td, c1.targetdist_grid_pntr_.v, c2.targetdist_grid_pntr_.v)
    IN  /\ g.v = IF td.force_normalization_ THEN Normalized(g, sum) ELSE sum
        /\ \A i \in 1..2 :
             LET c == td.distribution_pntrs_[i]
             IN  Untransformed(c) =>
                   c.targetdist_grid_pntr_.v =
                     IF c.force_normalization_
                     THEN Normalized(c.targetdist_grid_pntr_, ClosedForm(c))
                     ELSE ClosedForm(c)

\* a combination of two closed-form children without NORMALIZE, weights 1/4
\* and 3/4, has been updated and does not integrate to 1
C9_Witness ==
  /\ Running /\ nupd >= 1 /\ TwoStatic(td) /\ Untransformed(td)
  /\ ~td.force_normalization_
  /\ \A i \in 1..2 : ~td.distribution_pntrs_[i].force_normalization_
  /\ td.weights_ = <<<<1, 4>>, <<3, 4>>>>
  /\ IsFinite(integrateGrid(td.targetdist_grid_pntr_))
  /\ integrateGrid(td.targetdist_grid_pntr_) # One

\* C10: after construction of a linear combination the weights are the
\* WEIGHTS given, each divided by their sum, and sum to 1 for every weight
\* vector the constructor accepts; without WEIGHTS each of the n children
\* has weight 1/n.
C10_WeightsSumToOne ==
  (Running /\ td.name_ = "LINEAR_COMBINATION") =>
    /\ SeqSum(td.weights_) = One
    /\ "WEIGHTS" \notin opts.words =>
         \A i \in 1..td.ndist_ : td.weights_[i] = <<1, td.ndist_>>
    /\ "WEIGHTS" \in opts.words =>
         \A i \in 1..td.ndist_ :
           /\ IsFinite(td.weights_[i])
           /\ Mul(td.weights_[i], SeqSum(opts.WEIGHTS)) = opts.WEIGHTS[i]

\* some child of the linear combination d satisfies P
AnyChild(d, P(_)) == \E i \in 1..Len(d.distribution_pntrs_) : P(d.distribution_pntrs_[i])

C11_WitnessStatic ==
  /\ Running /\ td.name_ = "LINEAR_COMBINATION" /\ isStatic(td)
  /\ \A i \in 1..td.ndist_ : isStatic(td.distribution_pntrs_[i])

\* C12: after construction of a linear combination fesGridNeeded() is true
\* whenever it is true for any child and biasGridNeeded() is true whenever it
\* is true for any child (and neither is true otherwise).
C12_NeedsOfChildren ==
  (Running /\ td.name_ = "LINEAR_COMBINATION") =>
    LET fesGridNeeded(c) == c.needs_fes_grid_
        biasGridNeeded(c) == c.needs_bias_grid_
    IN  /\ fesGridNeeded(td) <=> AnyChild(td, fesGridNeeded)
        /\ biasGridNeeded(td) <=> AnyChild(td, biasGridNeeded)

\* a combination has been constructed with one child that needs the FES grid
\* and one that does not
C12_Witness ==
  /\ Running /\ td.name_ = "LINEAR_COMBINATION" /\ td.needs_fes_grid_
  /\ ~td.distribution_pntrs_[1].needs_fes_grid_
  /\ td.distribution_pntrs_[2].needs_fes_grid_

\* every child of d holds the same link of each kind as d
SameLinks(d) ==
  \A i \in 1..Len(d.distribution_pntrs_), kind \in LinkKinds :
    LinkField(d.distribution_pntrs_[i], kind) = LinkField(d, kind)

\* the kinds of link a call of one kind sets
LinksSetBy(kind) == IF kind = "VesBias" THEN {"VesBias", "Action"} ELSE {kind}

GridsReady(d) ==
  \A i \in 1..Len(Members(d)) :
    LET m == Members(d)[i]
    IN  /\ ~IsNull(m.targetdist_grid_pntr_) /\ ~IsNull(m.log_targetdist_grid_pntr_)
        /\ (isReweightGridActive(m) \/ isReweightGridActive(d)) =>
             ~IsNull(m.reweight_grid_pntr_) /\ ~IsNull(m.log_reweight_grid_pntr_)

\* update() of m, a member of d, needs an external input that is not linked;
\* rw tells whether the reweighting counterparts are needed as well
MissingLink(m, rw) ==
  \/ /\ m.bias_cutoff_active_
     /\ \/ IsNull(m.vesbias_pntr_)
        \/ IsNull(m.bias_withoutcutoff_grid_pntr_)
        \/ rw /\ IsNull(m.bias_withoutcutoff_rwgrid_pntr_)
  \/ /\ m.name_ = "WELL_TEMPERED"
     /\ \/ IsNull(m.vesbias_pntr_)
        \/ IsNull(m.fes_grid_pntr_)
        \/ rw /\ IsNull(m.fes_rwgrid_pntr_)
  \/ /\ m.name_ = "MATHEVAL_DIST"
     /\ \/ m.use_fes_ /\ (IsNull(m.fes_grid_pntr_) \/ (rw /\ IsNull(m.fes_rwgrid_pntr_)))
        \/ (m.use_kbt_ \/ m.use_beta_) /\ IsNull(m.vesbias_pntr_)

\* C14: whenever update() needs an external input that has not been linked
\* (the VES bias owner, the bias-without-cutoff grid, the free-energy grid, or
\* the reweighting counterpart of one of these grids when the reweighting pair
\* is active), the update ends in a fatal error raised where the link would be
\* dereferenced, and never reads through the unset link.
C14_MissingLinkIsFatal ==
  [][(/\ nupd' = nupd + 1 /\ GridsReady(td) /\ host'.oob # "SIGSEGV"
      /\ \E i \in 1..Len(Members(td)) :
           MissingLink(Members(td)[i],
                       isReweightGridActive(Members(td)[i]) \/ isReweightGridActive(td)))
       => ~Ok(td') /\ td'.fatal # "SIGSEGV"]_vars

\* the integrals that the normalizations of the last update() of d divided by
NormalizingIntegrals(d) ==
  {d.steps[k].norm : k \in {j \in 1..Len(d.steps) : d.steps[j].op = "normalize"}}

\* C15: normalizing the value grid (normalizeTargetDistGrid, reached from
\* forced normalization and from shift-to-zero) ends in a fatal error whenever
\* the quadrature integral of the grid is zero or negative, unless the grid
\* has been shifted to zero.
C15_NonPositiveIntegralIsFatal ==
  td # NULL =>
    \A i \in 1..Len(Members(td)) :
      LET d == Members(td)[i]
      IN  \A norm \in NormalizingIntegrals(d) :
            (~d.shift_targetdist_to_zero_ /\ (norm = Zero \/ Less(norm, Zero)))
              => ~Ok(d)

\* the value grid of d as updateGrid() and the modifiers of an update() with
\* the host h leave it, before the cutoff transform
BeforeCutoff(d, h) ==
  ApplyModifers(updateGrid([d EXCEPT !.steps = <<>>, !.warnings = {}], h), 1).targetdist_grid_pntr_

\* the last update() of d has applied the cutoff transform to its value grid
CutoffApplied(d) ==
  \E k \in 1..Len(d.steps) : d.steps[k] = [op |-> "cutoff", grid |-> "targetdist"]

\* the grid g has finite values and a finite integral other than zero
Renormalizable(g) ==
  /\ \A l \in 1..getSize(g) : IsFinite(g.v[l])
  /\ integrateGrid(g) # Zero

\* C16: with the bias cutoff active and the bias-without-cutoff grid 0 at
\* every point, the switching factor is 1 at every point and the value grid
\* after the cutoff transform is the value grid before it times one common
\* factor, the reciprocal of the integral of the grid before the transform.
C16_ZeroBiasCutoff ==
  [][(nupd' = nupd + 1 /\ host'.bias = "zero") =>
       \A i \in 1..Len(Members(td')) :
         (Members(td')[i].bias_cutoff_active_ /\ CutoffApplied(Members(td')[i])) =>
           \A before \in {BeforeCutoff(Members(td)[i], host')} :
             Renormalizable(before) =>
               /\ \A l \in 1..getSize(before) :
                    SwitchingFunction(BiasWithoutCutoff(host'.bias, getPoint(before, l))).swf = One
               /\ Members(td')[i].targetdist_grid_pntr_.v = Normalized(before, before.v)]_vars

\* the cutoff transform at zero bias has been applied to a grid that was not
\* constant and did not integrate to 1: the grid has kept its shape and now
\* integrates to 1
C16_Witness ==
  /\ Running /\ nupd >= 1 /\ host.bias = "zero"
  /\ td.name_ = "STATIC" /\ td.bias_cutoff_active_ /\ CutoffApplied(td)
  /\ getSize(td.targetdist_grid_pntr_) = 2
  /\ Mul(R(2), td.targetdist_grid_pntr_.v[1]) = td.targetdist_grid_pntr_.v[2]
  /\ integrateGrid(td.targetdist_grid_pntr_) = One

C18_RestartFailures ==
  [][last'.op = "readInRestartTargetDistGrid" =>
       LET notDynamic == ~isDynamic(td)
           noFile == ~host.file.exists
           mismatch == /\ host.file.exists /\ ~IsNull(td.targetdist_grid_pntr_)
                       /\ Len(host.file.lines) # getSize(td.targetdist_grid_pntr_)
       IN  /\ notDynamic =>
                td'.fatal = "this should only be used for dynamically updated target distributions!"
           /\ (~notDynamic /\ noFile) =>
                td'.fatal = "problem with reading previous target distribution when restarting, cannot find file"
           /\ (~notDynamic /\ mismatch) =>
                td'.fatal = "problem with reading previous target distribution when restarting, the grid is not of the correct size!"
           /\ (notDynamic \/ noFile \/ mismatch) =>
                /\ ~Ok(td')
                /\ td'.targetdist_grid_pntr_ = td.targetdist_grid_pntr_
                /\ td'.log_targetdist_grid_pntr_ = td.log_targetdist_grid_pntr_]_vars

\* a restart from a file of two points has failed on a live grid of one or
\* three points, which is as the last update() left it
C18_Witness ==
  /\ td # NULL /\ last.op = "readInRestartTargetDistGrid"
  /\ td.fatal = "problem with reading previous target distribution when restarting, the grid is not of the correct size!"
  /\ nupd >= 1 /\ Len(host.file.lines) = 2
  /\ getSize(td.targetdist_grid_pntr_) # 2

\* a restart of a static distribution has failed
C18_WitnessStatic ==
  /\ td # NULL /\ last.op = "readInRestartTargetDistGrid" /\ isStatic(td)
  /\ td.fatal = "this should only be used for dynamically updated target distributions!"
  /\ host.file.exists /\ ~IsNull(td.targetdist_grid_pntr_)

\* the values the expression takes over grid g in the update that leads to
\* the next state, and what TD_Matheval::updateGrid tests on them
EvaluatedValues(g) == [l \in 1..getSize(g) |-> Evaluate(td, host', getPoint(g, l))]
SomeNegative(g) == \E l \in 1..getSize(g) : Less(EvaluatedValues(g)[l], Zero)
SumNotPositive(g) ==
  ~Less(Zero, SeqSum([l \in 1..getSize(g) |->
                        Mul(getIntegrationWeights(g)[l], EvaluatedValues(g)[l])]))
MathevalFatal ==
  {"The target distribution function gives negative values",
   "The target distribution function cannot be normalized proberly",
   "The reweight grid function gives negative values",
   "The reweight grid function cannot be normalized proberly"}

\* C19: in updateGrid() of the expression-evaluated variant, for the primary
\* grid and (when active) the reweighting grid: if shift-to-zero is inactive
\* the update ends in a fatal error whenever some evaluated value is negative
\* or the quadrature-weighted sum of the evaluated values is not positive; if
\* shift-to-zero is active neither condition is fatal and the update
\* completes.  Stated for an update whose grids are set up, whose inputs are
\* linked and whose reads stay in memory the process owns.
C19_MathevalFatalUnlessShifted ==
  [][(/\ nupd' = nupd + 1 /\ td.name_ = "MATHEVAL_DIST"
      /\ GridsReady(td) /\ ~MissingLink(td, isReweightGridActive(td))
      /\ host'.oob # "SIGSEGV") =>
       LET Bad(g) == SomeNegative(g) \/ SumNotPositive(g)
           bad == \/ Bad(td.targetdist_grid_pntr_)
                  \/ isReweightGridActive(td) /\ Bad(td.reweight_grid_pntr_)
       IN  /\ (~td.shift_targetdist_to_zero_ /\ bad) => td'.fatal \in MathevalFatal
           /\ td.shift_targetdist_to_zero_ => Ok(td')]_vars

\* without shift-to-zero an update has ended in each of the two errors
C19_Witness ==
  /\ td # NULL /\ td.name_ = "MATHEVAL_DIST" /\ ~td.shift_targetdist_to_zero_
  /\ nupd >= 1
  /\ td.fatal = "The target distribution function gives negative values"

C19_WitnessSum ==
  /\ td # NULL /\ td.name_ = "MATHEVAL_DIST" /\ ~td.shift_targetdist_to_zero_
  /\ nupd >= 1
  /\ td.fatal = "The target distribution function cannot be normalized proberly"

\* with shift-to-zero an update over negative values has completed
C19_WitnessShifted ==
  /\ Running /\ td.name_ = "MATHEVAL_DIST" /\ td.shift_targetdist_to_zero_
  /\ nupd >= 1 /\ td.func = "s1-1"
  /\ \E l \in 1..getSize(td.targetdist_grid_pntr_) :
       Less(Evaluate(td, host, getPoint(td.targetdist_grid_pntr_, l)), Zero)

\* update() up to the two checks (TargetDistribution.cpp:350-359)
BeforeChecks(d, h) ==
  UpdateNormalize(UpdateShift(UpdateCutoff(ApplyModifers(
    updateGrid([d EXCEPT !.steps = <<>>, !.warnings = {}], h), 1), h)))
HasRun(d, check) == \E k \in 1..Len(d.steps) : d.steps[k].op = check
\* a double outside the interval [lo, hi]; NaN is in no interval
Outside(x, lo, hi) == IsNaN(x) \/ Less(x, lo) \/ Less(hi, x)

\* what the two checks did in the update that leads to the next state; pre is
\* the distribution before them
ChecksOnlyWarn(pre) ==
  /\ Ok(td')
  /\ [td' EXCEPT !.steps = pre.steps, !.warnings = pre.warnings] = pre
  /\ HasRun(td', "checkNormalization") <=>
       (pre.check_normalization_ /\ ~pre.bias_cutoff_active_)
  /\ HasRun(td', "checkNonNegative") <=> pre.check_nonnegative_
  /\ "not proberly normalized" \in td'.warnings <=>
       /\ pre.check_normalization_ /\ ~pre.bias_cutoff_active_
       /\ Outside(integrateGrid(pre.targetdist_grid_pntr_), <<9, 10>>, <<11, 10>>)
  /\ "has negative values" \in td'.warnings <=>
       /\ pre.check_nonnegative_
       /\ Less(getMinValue(pre.targetdist_grid_pntr_), <<-1, 50>>)

\* C20: the normalization check and the non-negativity check in
\* update() only emit warnings: the normalization check runs exactly when
\* checkNormalization is true and the bias cutoff is inactive and warns when
\* the integral is outside [0.9, 1.1]; the non-negativity check runs exactly
\* when checkNonNegative is true and warns when the grid minimum is below
\* -0.02; neither check ever aborts update() or modifies any grid.
C20_ChecksOnlyWarn ==
  [][nupd' = nupd + 1 =>
       \A pre \in {BeforeChecks(td, host')} :
         Ok(pre) => ChecksOnlyWarn(pre)]_vars

\* C21: constructing a linear combination fails with a fatal error when fewer
\* than 2 numbered DISTRIBUTION children are given, and when WEIGHTS is given
\* with a number of entries different from the number of children.
C21_ChildrenAndWeightsCounted ==
  (td # NULL /\ opts.name = "LINEAR_COMBINATION") =>
    /\ Len(opts.DISTRIBUTION) < 2 => ~Ok(td)
    /\ ("WEIGHTS" \in opts.words /\ Len(opts.WEIGHTS) # Len(opts.DISTRIBUTION)) => ~Ok(td)
    /\ (Len(opts.DISTRIBUTION) = 0 /\ opts.words \subseteq {"DISTRIBUTION", "WEIGHTS"}) =>
         td.fatal = "no distributions are given"
    /\ (Len(opts.DISTRIBUTION) = 1 /\ opts.words \subseteq {"DISTRIBUTION", "WEIGHTS"}) =>
         td.fatal = "giving only one distribution does not make sense"

\* three weights for two children have been refused
C21_Witness ==
  /\ td # NULL /\ opts.name = "LINEAR_COMBINATION"
  /\ Len(opts.DISTRIBUTION) = 2 /\ "WEIGHTS" \in opts.words /\ Len(opts.WEIGHTS) = 3
  /\ td.fatal = "there has to be as many weights given in WEIGHTS as numbered DISTRIBUTION keywords"

\* a single child has been refused
C21_WitnessOne ==
  /\ td # NULL /\ opts.name = "LINEAR_COMBINATION" /\ Len(opts.DISTRIBUTION) = 1
  /\ td.fatal = "giving only one distribution does not make sense"

\* no child at all has been refused
C21_WitnessNone ==
  /\ td # NULL /\ opts.name = "LINEAR_COMBINATION" /\ Len(opts.DISTRIBUTION) = 0
  /\ td.fatal = "no distributions are given"

\* the points of a grid
PointSet(g) == {getPoint(g, l) : l \in 1..getSize(g)}

\* C22: setupGrids on a linear combination calls setupGrids on every child
\* with the identical arguments, bounds and bin counts, so each child's value
\* grid has the same point set as the parent's, and it fails with a fatal
\* error if any child's resulting dimension differs from the parent's
\* dimension.
C22_ChildrenSetUpAlike ==
  [][(Running /\ last'.op = "setupGrids" /\ td.name_ = "LINEAR_COMBINATION") =>
       LET a == last'.arg
           Child(i) == td'.distribution_pntrs_[i]
       IN  /\ Ok(td') =>
                \A i \in 1..td'.ndist_ :
                  /\ Ok(Child(i))
                  /\ ~IsNull(Child(i).targetdist_grid_pntr_)
                  /\ ~IsNull(Child(i).log_targetdist_grid_pntr_)
                  /\ \A f \in {"min", "max", "nbins"} :
                       /\ Child(i).targetdist_grid_pntr_[f] = a[f]
                       /\ Child(i).log_targetdist_grid_pntr_[f] = a[f]
                  /\ PointSet(Child(i).targetdist_grid_pntr_) = PointSet(td'.targetdist_grid_pntr_)
                  /\ getDimension(Child(i)) = a.arguments
           /\ (\E i \in 1..td'.ndist_ : getDimension(Child(i)) # getDimension(td')) =>
                ~Ok(td')]_vars

\* a linear combination and its two children have been set up over the
\* points of the call
C22_Witness ==
  /\ Running /\ last.op = "setupGrids" /\ td.name_ = "LINEAR_COMBINATION"
  /\ last.arg.arguments = 1 /\ td.ndist_ = 2
  /\ \A i \in 1..2 :
       /\ ~IsNull(td.distribution_pntrs_[i].targetdist_grid_pntr_)
       /\ getSize(td.distribution_pntrs_[i].targetdist_grid_pntr_) = MaxBins + 1
       /\ PointSet(td.distribution_pntrs_[i].targetdist_grid_pntr_)
            = PointSet(td.targetdist_grid_pntr_)

\* the flags of a distribution just constructed from o with a BIAS_CUTOFF
\* above 0, and with a BIAS_CUTOFF of 0 or none; needed names the member that
\* marks the grid as needed (a linear combination may need a grid for a
\* child)
CutoffAtConstruction(d, o, needed) ==
  LET positive == "BIAS_CUTOFF" \in o.words /\ Less(Zero, o.BIAS_CUTOFF)
  IN  /\ positive =>
           /\ d.bias_cutoff_active_
           /\ isDynamic(d)
           /\ d[needed]
           /\ ~d.check_normalization_
           /\ ~d.force_normalization_
      /\ ~positive =>
           /\ ~d.bias_cutoff_active_
           /\ o.name # "LINEAR_COMBINATION" => ~d[needed]
           /\ (o.name = "STATIC" /\ "NORMALIZE" \notin o.words) =>
                /\ isStatic(d)
                /\ d.check_normalization_
                /\ ~d.force_normalization_

\* C23 (as stated): a BIAS_CUTOFF value > 0 at construction enables the cutoff
\* transform, forces the distribution to be dynamic, marks the bias grid as
\* needed, and disables the normalization check and forced normalization; a
\* value of 0 or an absent keyword leaves the cutoff inactive and all of these
\* flags at their defaults.
C23_CutoffNeedsBiasGrid ==
  [][(td = NULL /\ td' # NULL /\ Ok(td')) =>
       CutoffAtConstruction(td', opts', "needs_bias_grid_")]_vars

\* C23 (amended): as stated, except that the grid marked as needed is the
\* bias-without-cutoff grid; the bias grid stays not needed.
C23_CutoffNeedsBiasWithoutCutoffGrid ==
  [][(td = NULL /\ td' # NULL /\ Ok(td')) =>
       /\ CutoffAtConstruction(td', opts', "needs_bias_withoutcutoff_grid_")
       /\ td'.name_ # "LINEAR_COMBINATION" => ~td'.needs_bias_grid_]_vars

\* a distribution has been constructed with BIAS_CUTOFF=1 and no grid set up
C23_Witness ==
  /\ Running /\ "BIAS_CUTOFF" \in opts.words /\ opts.BIAS_CUTOFF = One
  /\ td.bias_cutoff_active_ /\ td.needs_bias_withoutcutoff_grid_ /\ ~td.needs_bias_grid_
  /\ IsNull(td.targetdist_grid_pntr_)

\* a distribution has been constructed with BIAS_CUTOFF=0
C23_WitnessZero ==
  /\ Running /\ "BIAS_CUTOFF" \in opts.words /\ opts.BIAS_CUTOFF = Zero
  /\ ~td.bias_cutoff_active_ /\ isStatic(td) /\ td.check_normalization_

\* C24: constructing the well-tempered variant fails with a fatal error
\* whenever the bias factor is <= 1; when construction succeeds the
\* distribution is dynamic and requires a free-energy grid.
C24_BiasFactorAboveOne ==
  (td # NULL /\ opts.name = "WELL_TEMPERED") =>
    /\ ("BIASFACTOR" \in opts.words
        /\ (Less(opts.BIASFACTOR, One) \/ opts.BIASFACTOR = One)) => ~Ok(td)
    /\ Ok(td) => isDynamic(td) /\ td.needs_fes_grid_ /\ Less(One, td.bias_factor_)

\* a bias factor of 1 has been refused
C24_Witness ==
  /\ td # NULL /\ opts.name = "WELL_TEMPERED" /\ opts.BIASFACTOR = One
  /\ td.fatal = "the value of the bias factor doesn't make sense, it should be larger than 1.0"

\* a bias factor of 1/2 has been refused
C24_WitnessBelow ==
  /\ td # NULL /\ opts.name = "WELL_TEMPERED" /\ opts.BIASFACTOR = <<1, 2>>
  /\ td.fatal = "the value of the bias factor doesn't make sense, it should be larger than 1.0"

\* a bias factor of 2 has been accepted
C24_WitnessAccepted ==
  /\ Running /\ opts.name = "WELL_TEMPERED" /\ opts.BIASFACTOR = R(2)
  /\ isDynamic(td) /\ td.needs_fes_grid_

\* member i of td, static and without bias cutoff, has been through an
\* update() and comes out of the next one with the grids it had
SameAfterUpdate(i) ==
  LET m == Members(td)[i]
      n == Members(td')[i]
  IN  (isStatic(m) /\ ~m.bias_cutoff_active_) =>
        /\ n.targetdist_grid_pntr_ = m.targetdist_grid_pntr_
        /\ n.log_targetdist_grid_pntr_ = m.log_targetdist_grid_pntr_

\* C25: for a static distribution without bias cutoff (with or without
\* registered modifiers, shift-to-zero or forced normalization), repeated
\* update() calls do not change the result: the value grid and log grid after
\* any number k >= 1 of successive update() calls equal those after the first
\* update().  This includes a static child of a dynamic linear combination,
\* whose update() is called on every parent update.
C25_StaticUpdateRepeats ==
  [][(Running /\ nupd >= 1 /\ nupd' = nupd + 1 /\ Ok(td')) =>
       \A i \in 1..Len(Members(td)) : SameAfterUpdate(i)]_vars

\* C26: for the expression-evaluated variant, setupGrids fails with a fatal
\* error whenever the expression references a CV symbol s_k with k greater
\* than the distribution's dimension, so that updateGrid() never reads a
\* coordinate index outside 0..dimension-1 of a grid point.
C26_CvSymbolsWithinDimension ==
  (Running /\ td.name_ = "MATHEVAL_DIST" /\ ~IsNull(td.targetdist_grid_pntr_)) =>
    /\ \A k \in 1..Len(td.cv_var_idx_) : td.cv_var_idx_[k] + 1 <= getDimension(td)
    /\ ~ReadsPastPoint(td, td.targetdist_grid_pntr_)

\* C27: in every state reachable through the constructor followed by any
\* number of calls to the public setupBiasCutoff(), the flags stay mutually
\* consistent: biasCutoffActive implies shiftToZero is false,
\* forceNormalization is false, checkNormalization is false and no modifier
\* is registered; and forceNormalization and checkNormalization are never
\* both true.
C27_FlagsConsistent ==
  Running =>
    \A i \in 1..Len(Members(td)) :
      LET m == Members(td)[i]
      IN  /\ m.bias_cutoff_active_ =>
               /\ ~m.shift_targetdist_to_zero_
               /\ ~m.force_normalization_
               /\ ~m.check_normalization_
               /\ m.targetdist_modifer_pntrs_ = <<>>
          /\ ~(m.force_normalization_ /\ m.check_normalization_)

\* the copy of d without the reweighting pair: the pair of d and of its
\* children is neither active nor allocated; the record of the last update()
\* is left out of the comparison
WithoutReweight(d) ==
  LET Copy(c) == [c EXCEPT !.reweight_grid_active_ = FALSE,
                           !.reweight_grid_pntr_ = NULL,
                           !.log_reweight_grid_pntr_ = NULL,
                           !.steps = <<>>, !.warnings = {}]
  IN  IF d.name_ = "LINEAR_COMBINATION"
      THEN [Copy(d) EXCEPT
              !.distribution_pntrs_ = [i \in 1..Len(@) |-> Copy(@[i])],
              !.rw_grid_pntrs_ = [i \in 1..Len(@) |-> NULL]]
      ELSE Copy(d)

\* the primary value grid and log grid of d and of its children
PrimaryPairs(d) ==
  [i \in 1..Len(Members(d)) |->
     <<Members(d)[i].targetdist_grid_pntr_, Members(d)[i].log_targetdist_grid_pntr_>>]

\* some member of d has the reweighting pair active
ReweightActive(d) ==
  \E i \in 1..Len(Members(d)) : isReweightGridActive(Members(d)[i])

\* the steps of an update() that are not passes over the reweighting pair,
\* in order, each with the norm it divided by
NotOnReweight(steps) == SelectSeq(steps, LAMBDA e : e.grid # "reweight")

\* the update() of d ended in a pass over the reweighting pair: on the pair
\* itself, the last step recorded, or before it on a reweighting grid or a
\* reweighting link that is NULL
EndedOnReweight(d) ==
  \/ d.steps # <<>> /\ d.steps[Len(d.steps)].grid = "reweight"
  \/ d.fatal \in {"SIGSEGV",
                  "the FES reweight grid has to be linked to the free energy in the target distribution"}

\* an update() of the copy with the reweighting pair that returns leaves the
\* primary pair, and every other member, as the update() of the copy without
\* the pair does
PrimaryAlike(copy) ==
  Ok(td') =>
    /\ Ok(copy)
    /\ PrimaryPairs(td') = PrimaryPairs(copy)
    /\ NotOnReweight(td'.steps) = copy.steps
    /\ WithoutReweight(td') = WithoutReweight(copy)

\* an update() that ends in a fatal error ends on the same step of the
\* primary pair in both copies, or in a pass over the reweighting pair after
\* steps on the primary pair that went as in the copy without the pair
OutcomeAlike(copy) ==
  ~Ok(td') =>
    \/ td'.fatal = copy.fatal /\ NotOnReweight(td'.steps) = copy.steps
    \/ /\ EndedOnReweight(td')
       /\ IsPrefix(NotOnReweight(td'.steps), copy.steps)
       /\ Ok(copy) \/ Len(NotOnReweight(td'.steps)) < Len(copy.steps)
                   \/ td'.fatal # copy.fatal

\* C28: the primary grid pair does not depend on the reweighting grid pair:
\* of two copies of a distribution with the same linked inputs, one with the
\* reweighting pair active and one without, every update() leaves the same
\* value grid and log grid, and every step on the primary pair ends in the
\* same way, success or fatal error, in both copies.
C28_PrimaryIndependentOfReweight ==
  [][(Running /\ nupd' = nupd + 1 /\ ReweightActive(td)) =>
       \A copy \in {update(WithoutReweight(td), host')} :
         PrimaryAlike(copy) /\ OutcomeAlike(copy)]_vars

\* an update() with the reweighting pair active has returned after a
\* modifier pass over both pairs, and the two pairs differ
C28_Witness ==
  /\ Running /\ nupd >= 1 /\ isReweightGridActive(td)
  /\ \E k \in 1..Len(td.steps) : td.steps[k].op = "modifier" /\ td.steps[k].grid = "reweight"
  /\ \E k \in 1..Len(td.steps) : td.steps[k].op = "modifier" /\ td.steps[k].grid = "targetdist"
  /\ td.reweight_grid_pntr_ # td.targetdist_grid_pntr_

\* an update() has ended in the pass over the reweighting pair after the
\* primary pair was filled
C28_WitnessReweightFailure ==
  /\ td # NULL /\ nupd >= 1 /\ isReweightGridActive(td)
  /\ ~Ok(td) /\ EndedOnReweight(td)
  /\ \E k \in 1..Len(td.steps) : td.steps[k].op = "fill" /\ td.steps[k].grid = "targetdist"

\* C29: after the construction of a linear combination,
\* biasWithoutCutoffGridNeeded() is true whenever it is true for any child,
\* a child configured with its own BIAS_CUTOFF.
C29_CutoffGridNeededFromChildren ==
  (Running /\ td.name_ = "LINEAR_COMBINATION") =>
    (AnyChild(td, LAMBDA c : c.needs_bias_withoutcutoff_grid_)
       => td.needs_bias_withoutcutoff_grid_)

\* setupGrids has not allocated the value grid and the log grid of d
BeforeSetupGrids(d) ==
  IsNull(d.targetdist_grid_pntr_) \/ IsNull(d.log_targetdist_grid_pntr_)

\* the reweighting pair of d is marked active and not allocated
ReweightUnallocated(d) ==
  /\ isReweightGridActive(d)
  /\ IsNull(d.reweight_grid_pntr_) \/ IsNull(d.log_reweight_grid_pntr_)

\* d ended in a fatal error that the code raised, not in a NULL dereference
EndedInFatalError(d) == ~Ok(d) /\ d.fatal # "SIGSEGV"

\* the four grids of d and of its children
AllGrids(d) ==
  [i \in 1..Len(Members(d)) |->
     <<Members(d)[i].targetdist_grid_pntr_, Members(d)[i].log_targetdist_grid_pntr_,
       Members(d)[i].reweight_grid_pntr_, Members(d)[i].log_reweight_grid_pntr_>>]

\* the reweighting pair of every member that has it active is allocated
ReweightActiveAllocated ==
  td # NULL =>
    \A i \in 1..Len(Members(td)) : ~ReweightUnallocated(Members(td)[i])

\* an update() before the grids it works on are allocated ends in a fatal
\* error and leaves every grid as it was
UpdateBeforeSetupIsFatal ==
  (Running /\ nupd' = nupd + 1 /\ (BeforeSetupGrids(td) \/ ReweightUnallocated(td))) =>
    EndedInFatalError(td') /\ AllGrids(td') = AllGrids(td)

\* C30: for every variant, an update() called before setupGrids, or with the
\* reweighting pair marked active before setupReweightGrids has allocated
\* it, ends in a fatal error before any grid is read or written; and in
\* every reachable state, reweighting-active implies that both reweighting
\* grids are allocated.
C30_LifecycleOrdering ==
  [][UpdateBeforeSetupIsFatal]_vars /\ []ReweightActiveAllocated

====
